---------------------------- MODULE Spec2Model ----------------------------
(***************************************************************************)
(* Model of the SQL generation layer of the northwind warehouse            *)
(* (src/sqlmesh/models): the plans the blueprints build, and what those    *)
(* plans compute over small tables.                                        *)
(*                                                                         *)
(* A nullable SQL value is an option: NULL is the empty tuple and a value  *)
(* v is the one-element tuple <<v>>.  Text values are TLA+ strings.        *)
(*                                                                         *)
(* The module holds one specification per component; each specification    *)
(* leaves the variables of the other components at their idle values.      *)
(*   SpecHash    hash_columns over tuples of nullable text values          *)
(*   SpecRaw     das__raw__blueprint: land a load, evaluate the plan,      *)
(*               append its output to das.raw.<name>                       *)
(*   SpecRawPlan das__raw__blueprint: the plan for any column metadata,    *)
(*               evaluated on the first run                                *)
(*   SpecGen     the hook and bridge entrypoints over a frame catalog      *)
(*   SpecHook    dab__hook__blueprint: compile, fill das.scd, evaluate     *)
(*   SpecBridge  dar__bridge__blueprint: compile, fill tables, evaluate    *)
(*   SpecEvent   dar__event__blueprint: compile, fill tables, evaluate     *)
(*   SpecWindow  the three plans over two consecutive windows              *)
(*   SpecAsOf    dar__bridge__as_of: the union of the event bridges        *)
(***************************************************************************)
EXTENDS Integers, Sequences, FiniteSets, Bags, TLC

VARIABLES
    hfields,      \* SpecHash: the two column tuples handed to hash_columns
    hinputs,      \* SpecHash: the two strings fed to SHA256 (<<>> before the call)
    source,       \* SpecRaw: rows of landing_zone.<schema>.<name>
    dedup,        \* SpecRaw: cte__deduplicated of the last evaluation
    target,       \* SpecRaw: rows of das.raw.<name>, a bag of rows
    output,       \* SpecRaw: rows the last evaluation of the plan returned
    rawpc,        \* SpecRaw: "landed" after a load, "evaluated" after its first
                  \*          evaluation, "rerun" after a repeated one
    runs,         \* SpecRaw: number of evaluations so far
    bframe,       \* SpecBridge: index in the catalog of the frame compiled (0: none)
    bplan,        \* SpecBridge: what the bridge entrypoint returned or raised
    bdata,        \* SpecBridge: the rows of each table the plan reads
    bjoined,      \* SpecBridge: the rows of FROM ... LEFT JOIN ..., each with the
                  \*             row the SELECT list projects from it
    boutput,      \* SpecBridge: the rows of bjoined that pass the WHERE clause
    bpc,          \* SpecBridge: "start", "compiled" or "failed", "filled", "evaluated"
    gcatalog,     \* SpecGen: the frame catalog, as load_frames returns it
    gwindow,      \* SpecGen: <<start_ts, end_ts>> handed to the entrypoints
    ghook,        \* SpecGen: per frame, what the hook entrypoint returned or raised
    gbridge,      \* SpecGen: per frame, what the bridge entrypoint returned or raised
    eblueprint,   \* SpecEvent: the blueprint (name, events) being generated
    eplan,        \* SpecEvent: the plan build_event_bridge_sql returned
    edata,        \* SpecEvent: the rows of the bridge table and of the event sources
    ewidened,     \* SpecEvent: the rows of cte__events
    eunpivot,     \* SpecEvent: the rows of cte__unpivot, each with the row it came from
    eoutput,      \* SpecEvent: the rows the plan returns
    epc,          \* SpecEvent: "start", "compiled", "filled", "evaluated"
    wbounds,      \* SpecWindow: <<a, b, c>>, the bounds of two consecutive windows
    wupdated,     \* SpecWindow: _record__updated_at of the one row in the tables
    wsel,         \* SpecWindow: per stage, <<>> or whether the plan for window
                  \*             (a, b) and the plan for window (b, c) returned the row
    kframe,       \* SpecHook: the frame whose hook model is generated
    kplan,        \* SpecHook: what the hook entrypoint returned or raised
    kdata,        \* SpecHook: the rows of das.scd.<name>
    koutput,      \* SpecHook: the rows the plan returns
    kpc,          \* SpecHook: "start", "compiled" or "failed", "filled", "evaluated"
    pcolumns,     \* SpecRawPlan: the column metadata of the blueprint, in metadata order
    pplan,        \* SpecRawPlan: what the raw entrypoint returned or raised
    psource,      \* SpecRawPlan: rows of landing_zone.<schema>.<name>
    poutput,      \* SpecRawPlan: the rows the plan returns over an empty das.raw.<name>
    ppc,          \* SpecRawPlan: "start", "compiled", "landed", "evaluated"
    acatalog,     \* the frames models.yml holds when the as-of model is generated
    aplan,        \* the plan of dar.uss._bridge__as_of
    apc           \* as-of: start, compiled

hashVars == <<hfields, hinputs>>
rawVars  == <<source, dedup, target, output, rawpc, runs>>
bridgeVars == <<bframe, bplan, bdata, bjoined, boutput, bpc>>
genVars  == <<gcatalog, gwindow, ghook, gbridge>>
eventVars == <<eblueprint, eplan, edata, ewidened, eunpivot, eoutput, epc>>
winVars  == <<wbounds, wupdated, wsel>>
hookVars == <<kframe, kplan, kdata, koutput, kpc>>
rawPlanVars == <<pcolumns, pplan, psource, poutput, ppc>>
asOfVars == <<acatalog, aplan, apc>>
vars     == <<hashVars, rawVars, bridgeVars, genVars, eventVars, winVars, hookVars, rawPlanVars, asOfVars>>

\* what the actions of one component leave alone
notHash   == <<rawVars, bridgeVars, genVars, eventVars, winVars, hookVars, rawPlanVars, asOfVars>>
notRaw    == <<hashVars, bridgeVars, genVars, eventVars, winVars, hookVars, rawPlanVars, asOfVars>>
notBridge == <<hashVars, rawVars, genVars, eventVars, winVars, hookVars, rawPlanVars, asOfVars>>
notGen    == <<hashVars, rawVars, bridgeVars, eventVars, winVars, hookVars, rawPlanVars, asOfVars>>
notEvent  == <<hashVars, rawVars, bridgeVars, genVars, winVars, hookVars, rawPlanVars, asOfVars>>
notWindow == <<hashVars, rawVars, bridgeVars, genVars, eventVars, hookVars, rawPlanVars, asOfVars>>
notHook == <<hashVars, rawVars, bridgeVars, genVars, eventVars, winVars, rawPlanVars, asOfVars>>
notRawPlan == <<hashVars, rawVars, bridgeVars, genVars, eventVars, winVars, hookVars, asOfVars>>
notAsOf == <<hashVars, rawVars, bridgeVars, genVars, eventVars, winVars, hookVars, rawPlanVars>>

NULL == <<>>
Some(v) == <<v>>

(***************************************************************************)
(* Bounds.                                                                 *)
(***************************************************************************)
MaxFields     == 2   \* longest column tuple handed to hash_columns
MaxSourceRows == 2   \* rows of one landing load
MaxLoadId     == 2   \* _dlt_load_id values are 1..MaxLoadId (epoch seconds)
MaxRuns       == 2   \* evaluations of the raw plan
MaxTick       == 4   \* timestamps are 10, 15, ..., 10 + 5 * MaxTick
MaxFrames     == 3   \* frames in a catalog
TicksPerDay   == 20  \* timestamps per calendar day

(***************************************************************************)
(* hash_columns (das__raw__blueprint.py:65-81).                            *)
(***************************************************************************)
\* exp.Literal.string("_sqlmesh_surrogate_key_null_")
NullSentinel == "_sqlmesh_surrogate_key_null_"

\* exp.Literal.string("|")
FieldDelimiter == "|"

\* CAST(field AS text): NULL stays NULL, a text value is itself
CastText(v) == v

\* COALESCE(a, b): the first argument that is not NULL
Coalesce(a, b) == IF a # NULL THEN a ELSE b

\* the variant that renders NULL as the empty string
HashFieldNullAsEmpty(field) == Coalesce(CastText(field), Some(""))[1]

\* COALESCE(CAST(field AS text), '_sqlmesh_surrogate_key_null_'), as a string
HashField(field) == Coalesce(CastText(field), Some(NullSentinel))[1]

\* the argument list of CONCAT: a "|" literal before every field but the first
RECURSIVE StringFields(_)
StringFields(fields) ==
    IF fields = <<>> THEN <<>>
    ELSE LET n == Len(fields)
             front == StringFields(SubSeq(fields, 1, n - 1))
         IN  IF n > 1
             THEN front \o <<FieldDelimiter, HashField(fields[n])>>
             ELSE <<HashField(fields[n])>>

\* CONCAT(s1, s2, ...) over strings
RECURSIVE Concat(_)
Concat(strs) ==
    IF strs = <<>> THEN "" ELSE strs[1] \o Concat(Tail(strs))

\* the string hash_columns feeds to SHA256
HashInput(fields) == Concat(StringFields(fields))

\* SHA256 as a collision-free digest: a tagged copy of its input
SHA256(s) == <<"sha256", s>>

\* hash_columns(*fields)
hash_columns(fields) == SHA256(HashInput(fields))

(***************************************************************************)
(* SpecHash: hash_columns applied to two tuples of nullable text values.   *)
(***************************************************************************)
\* NULL, the empty text, a plain text, a text that holds the delimiter and
\* the text of the NULL sentinel
HashVals == {NULL, Some(""), Some("a"), Some("a|a"), Some(NullSentinel)}

RECURSIVE TuplesOf(_, _)
TuplesOf(S, n) ==
    IF n = 0 THEN {<<>>}
    ELSE {Append(t, v) : t \in TuplesOf(S, n - 1), v \in S}

HashTuples == UNION {TuplesOf(HashVals, n) : n \in 1..MaxFields}

HashIdle == hfields = <<>> /\ hinputs = <<>>

InitHash ==
    /\ hfields \in HashTuples \X HashTuples
    /\ hinputs = <<>>

HashBoth ==
    /\ hinputs = <<>>
    /\ hinputs' = <<HashInput(hfields[1]), HashInput(hfields[2])>>
    /\ UNCHANGED hfields
    /\ UNCHANGED notHash

(***************************************************************************)
(* Raw Deduplicator (das__raw__blueprint.py).                              *)
(* The blueprint's column metadata, in metadata order: two business        *)
(* columns and the two columns the loader adds to every landed row.        *)
(***************************************************************************)
Columns == <<"c1", "c2", "_dlt_load_id", "_dlt_id">>

NameTails ==
    {"c1", "c2", "_load_id", "_id", "",
     "_hook__customer", "_hook__product", "_hook__order", "_hook__reference",
     "_hook__order__product", "_hook__shipment", "_hook__waybill",
     "customer", "product", "order", "reference", "order__product", "shipment", "waybill",
     "updated_at", "valid_from", "valid_to", "is_current"}

\* str.startswith over the column names of the model
StartsWith(s, p) == \E t \in NameTails : s = p \o t

\* build_source_columns: one CAST(col AS type) AS col per metadata entry, in
\* metadata order; empty metadata gives the empty list
build_source_columns(columns) == columns

\* get_columns_to_hash: the aliases that do not start with "_dlt"
get_columns_to_hash(source_columns) ==
    SelectSeq(source_columns, LAMBDA c : ~StartsWith(c, "_dlt"))

\* to_timestamp: epoch seconds -> microseconds since 1970-01-01
to_timestamp(seconds) == seconds * 1000000

\* the values of (c1, c2) a landed row may carry
RawTuples == << <<Some("a"), NULL>>, <<NULL, Some("a")>> >>

\* one landed row: a value per metadata column
LandedRow(c1, c2, load, id) ==
    [c \in {"c1", "c2", "_dlt_load_id", "_dlt_id"} |->
        CASE c = "c1" -> c1
          [] c = "c2" -> c2
          [] c = "_dlt_load_id" -> load
          [] c = "_dlt_id" -> id]

\* the k-th kind of row: a (c1, c2) tuple and a _dlt_load_id
NumKinds == Len(RawTuples) * MaxLoadId

KindTuple(k) == RawTuples[((k - 1) \div MaxLoadId) + 1]

KindLoad(k) == ((k - 1) % MaxLoadId) + 1

\* every load of at most MaxSourceRows rows, up to the order of the rows:
\* _dlt_id is unique per row and carries no other information
Loads ==
    UNION { { {LandedRow(KindTuple(f[i])[1], KindTuple(f[i])[2], KindLoad(f[i]), i) : i \in 1..n} :
                f \in {g \in [1..n -> 1..NumKinds] :
                          \A i \in 1..n, j \in 1..n : i < j => g[i] <= g[j]} } :
            n \in 0..MaxSourceRows }

\* the variant whose hash also covers _dlt_load_id and _dlt_id
SourceRowHashingDltColumns(row, columns_to_hash) ==
    [row |-> row,
     _record__hash |-> hash_columns([i \in 1..Len(columns_to_hash) |-> row[columns_to_hash[i]]]
                                    \o <<Some(ToString(row["_dlt_load_id"])),
                                          Some(ToString(row["_dlt_id"]))>>),
     _record__loaded_at |-> to_timestamp(row["_dlt_load_id"])]

\* cte__source: the cast columns plus _record__hash and _record__loaded_at
SourceRow(row, columns_to_hash) ==
    [row |-> row,
     _record__hash |-> hash_columns([i \in 1..Len(columns_to_hash) |-> row[columns_to_hash[i]]]),
     _record__loaded_at |-> to_timestamp(row["_dlt_load_id"])]

cte__source(src, columns_to_hash) == {SourceRow(r, columns_to_hash) : r \in src}

\* the variant ordered by _record__loaded_at descending
RowNumberingsDescending(rows) ==
    {ver \in [rows -> 1..Cardinality(rows)] :
        \A r \in rows :
            LET part == {q \in rows : q._record__hash = r._record__hash}
            IN  /\ ver[r] <= Cardinality(part)
                /\ \A q \in part :
                     /\ (q # r => ver[q] # ver[r])
                     /\ (q._record__loaded_at > r._record__loaded_at => ver[q] < ver[r])}

\* ROW_NUMBER() OVER (PARTITION BY _record__hash ORDER BY _record__loaded_at):
\* every numbering the window function may return; rows of one partition that
\* tie on _record__loaded_at are numbered in either order
RowNumberings(rows) ==
    {ver \in [rows -> 1..Cardinality(rows)] :
        \A r \in rows :
            LET part == {q \in rows : q._record__hash = r._record__hash}
            IN  /\ ver[r] <= Cardinality(part)
                /\ \A q \in part :
                     /\ (q # r => ver[q] # ver[r])
                     /\ (q._record__loaded_at < r._record__loaded_at => ver[q] < ver[r])}

\* cte__deduplicated: SELECT *, ROW_NUMBER() ... AS _record__hash__version
cte__deduplicated(rows, ver) ==
    {[row |-> r.row,
      _record__hash |-> r._record__hash,
      _record__loaded_at |-> r._record__loaded_at,
      _record__hash__version |-> ver[r]] : r \in rows}

\* the hashes das.raw.<name> holds
TargetHashes(tgt) == {t._record__hash : t \in BagToSet(tgt)}

\* the final projection: the source columns, _record__hash, _record__loaded_at
RawProject(d) ==
    [row |-> d.row,
     _record__hash |-> d._record__hash,
     _record__loaded_at |-> d._record__loaded_at]

\* the variant without the filter on _record__hash__version
RawPlanRowsAnyVersion(deduplicated, tgt) ==
    {RawProject(d) : d \in {d \in deduplicated : d._record__hash \notin TargetHashes(tgt)}}

\* the variant without the anti-join
RawPlanRowsNoAntiJoin(deduplicated, tgt) ==
    {RawProject(d) : d \in {d \in deduplicated : d._record__hash__version = 1}}

\* the final select of build_sql_select, evaluated: cte__deduplicated
\* anti-joined to das.raw.<name> on _record__hash, filtered on version 1
RawPlanRows(deduplicated, tgt) ==
    {RawProject(d) : d \in {d \in deduplicated :
        /\ d._record__hash \notin TargetHashes(tgt)
        /\ d._record__hash__version = 1}}

RawIdle ==
    /\ source = {} /\ dedup = {} /\ target = EmptyBag /\ output = {}
    /\ rawpc = "idle" /\ runs = 0

InitRaw ==
    /\ source \in Loads
    /\ dedup = {}
    /\ target = EmptyBag
    /\ output = {}
    /\ rawpc = "landed"
    /\ runs = 0

\* the loader replaces the landing table by a new load
Land ==
    /\ rawpc \in {"evaluated", "rerun"}
    /\ runs < MaxRuns
    /\ source' \in Loads
    /\ rawpc' = "landed"
    /\ UNCHANGED <<dedup, target, output, runs>>
    /\ UNCHANGED notRaw

\* entrypoint: build the plan for the blueprint; the executor evaluates it
\* and appends the rows to das.raw.<name> (INCREMENTAL_UNMANAGED).  rawpc
\* tells a first evaluation of a load from a repeated one.
Evaluate ==
    /\ runs < MaxRuns
    /\ LET source_columns == build_source_columns(Columns)
           columns_to_hash == get_columns_to_hash(source_columns)
           rows == cte__source(source, columns_to_hash)
       IN  \E ver \in RowNumberings(rows) :
             /\ dedup' = cte__deduplicated(rows, ver)
             /\ output' = RawPlanRows(dedup', target)
             /\ target' = target (+) SetToBag(output')
    /\ rawpc' = IF rawpc = "landed" THEN "evaluated" ELSE "rerun"
    /\ runs' = runs + 1
    /\ UNCHANGED source
    /\ UNCHANGED notRaw

(***************************************************************************)
(* The catalog: frames with hooks and composite hooks (frames.yml and       *)
(* models.yml, read by the blueprints at import).                          *)
(***************************************************************************)
\* Python's None for a missing name; "not name" holds for None and for ""
None == ""

Hook(name, primary) ==
    [name |-> name, primary |-> primary, keyset |-> "northwind", expression |-> "id", hooks |-> <<>>]

CompositeHook(name, primary, children) ==
    [name |-> name, primary |-> primary, keyset |-> "", expression |-> None, hooks |-> children]

Frame(name, hooks, composite_hooks) ==
    [name |-> name, hooks |-> hooks, composite_hooks |-> composite_hooks]

FrameCustomers == Frame("customers", <<Hook("_hook__customer", TRUE)>>, <<>>)

FrameProducts == Frame("products", <<Hook("_hook__product", TRUE)>>, <<>>)

\* _hook__reference is primary in no frame
FrameOrders ==
    Frame("orders",
          <<Hook("_hook__order", TRUE), Hook("_hook__customer", FALSE),
            Hook("_hook__reference", FALSE)>>,
          <<>>)

FrameOrderDetails ==
    Frame("order_details",
          <<Hook("_hook__order", FALSE), Hook("_hook__product", FALSE)>>,
          <<CompositeHook("_hook__order__product", TRUE, <<"_hook__order", "_hook__product">>)>>)

\* a frame in which nothing is marked primary
FrameOrphans == Frame("orphans", <<Hook("_hook__customer", FALSE)>>, <<>>)

\* a frame that marks two hooks primary; no other frame has these hooks
FrameShipments ==
    Frame("shipments", <<Hook("_hook__shipment", TRUE), Hook("_hook__waybill", TRUE)>>, <<>>)

FramePool ==
    {FrameCustomers, FrameProducts, FrameOrders, FrameOrderDetails, FrameOrphans,
     FrameShipments}

(***************************************************************************)
(* Expressions and plans (sqlglot trees).                                  *)
(***************************************************************************)
Column(table, name) == [kind |-> "column", table |-> table, name |-> name, args |-> <<>>]

Func(name, args) == [kind |-> "func", table |-> "", name |-> name, args |-> args]

Literal(value) == [kind |-> "literal", table |-> "", name |-> value, args |-> <<>>]

\* expr AS alias
Alias(expr, alias) == [alias |-> alias, expr |-> expr]

\* x BETWEEN low AND high
BetweenExpr(this, low, high) == [this |-> this, low |-> low, high |-> high]

(***************************************************************************)
(* Bridge Join Planner (dar__bridge__blueprint.py).                        *)
(***************************************************************************)
\* frame.get("hooks", []) + (frame.get("composite_hooks", []) or [])
AllHooksOf(frame) == frame.hooks \o frame.composite_hooks

\* the name of the first element of hooks marked primary, None when there is none
FirstPrimary(hooks) ==
    IF \E i \in 1..Len(hooks) : hooks[i].primary
    THEN hooks[CHOOSE i \in 1..Len(hooks) :
                  /\ hooks[i].primary
                  /\ \A j \in 1..(i - 1) : ~hooks[j].primary].name
    ELSE None

\* find_primary_hook: the first primary hook, else the first primary composite hook
find_primary_hook(frame) ==
    IF \E i \in 1..Len(frame.hooks) : frame.hooks[i].primary
    THEN FirstPrimary(frame.hooks)
    ELSE FirstPrimary(frame.composite_hooks)

\* does frame f mark a hook or composite hook named hook_name primary
MarksPrimary(f, hook_name) ==
    \E i \in 1..Len(AllHooksOf(f)) :
        AllHooksOf(f)[i].name = hook_name /\ AllHooksOf(f)[i].primary

\* does frame f have a hook or composite hook named hook_name
HasHook(f, hook_name) ==
    \E i \in 1..Len(AllHooksOf(f)) : AllHooksOf(f)[i].name = hook_name

\* the variant that does not look at the primary mark
get_foreign_frame_name_any_hook(hook_name, all_frames) ==
    IF \E k \in 1..Len(all_frames) : HasHook(all_frames[k], hook_name)
    THEN all_frames[CHOOSE k \in 1..Len(all_frames) :
                       /\ HasHook(all_frames[k], hook_name)
                       /\ \A j \in 1..(k - 1) : ~HasHook(all_frames[j], hook_name)].name
    ELSE None

\* the variant that resolves a hook only to frames whose bridge model has
\* been generated already, as a registry filled by the calls would
get_foreign_frame_name_generated_only(hook_name, all_frames) ==
    LET generated(f) == \E k \in 1..Len(gcatalog) :
                            gcatalog[k].name = f.name /\ gbridge[k].kind # "none"
        owners == {k \in 1..Len(all_frames) :
                     MarksPrimary(all_frames[k], hook_name) /\ generated(all_frames[k])}
    IN  IF owners # {}
        THEN all_frames[CHOOSE k \in owners : \A j \in owners : k <= j].name
        ELSE None

\* the variant that names a frame for a hook no frame marks primary
get_foreign_frame_name_never_none(hook_name, all_frames) ==
    IF \E k \in 1..Len(all_frames) : MarksPrimary(all_frames[k], hook_name)
    THEN all_frames[CHOOSE k \in 1..Len(all_frames) :
                       /\ MarksPrimary(all_frames[k], hook_name)
                       /\ \A j \in 1..(k - 1) : ~MarksPrimary(all_frames[j], hook_name)].name
    ELSE "unknown"

\* get_foreign_frame_name: the name of the first frame of the catalog that
\* marks hook_name primary, None when no frame does
get_foreign_frame_name(hook_name, all_frames) ==
    IF \E k \in 1..Len(all_frames) : MarksPrimary(all_frames[k], hook_name)
    THEN all_frames[CHOOSE k \in 1..Len(all_frames) :
                       /\ MarksPrimary(all_frames[k], hook_name)
                       /\ \A j \in 1..(k - 1) : ~MarksPrimary(all_frames[j], hook_name)].name
    ELSE None

\* get_foreign_hooks: the hooks of the frame, other than its primary hook,
\* whose name some frame of the catalog marks primary
get_foreign_hooks(frame, primary_hook, all_frames) ==
    SelectSeq(AllHooksOf(frame),
              LAMBDA hook : /\ hook.name # primary_hook
                            /\ get_foreign_frame_name(hook.name, all_frames) # None)

\* the columns of the four record metadata fields
RecordColumns ==
    <<"_record__updated_at", "_record__valid_from", "_record__valid_to", "_record__is_current">>

\* the _pit columns of a column list
PitColumns(columns) == SelectSeq(columns, LAMBDA c : StartsWith(c, "_pit"))

\* s1 \o s2 \o ... for a sequence of sequences
RECURSIVE Flatten(_)
Flatten(seqs) == IF seqs = <<>> THEN <<>> ELSE seqs[1] \o Flatten(Tail(seqs))

\* evaluator.columns_to_types("dar.uss__staging._bridge__<frame>").keys(): the
\* columns that frame's own bridge plan projects, which hold the _pit columns
\* of the bridges it joins; depth bounds the chain of joins followed (a chain
\* is no longer than the catalog, unless a frame joins its own bridge)
RECURSIVE BridgeColumns(_, _, _)
BridgeColumns(frame_name, all_frames, depth) ==
    LET owner == {k \in 1..Len(all_frames) : all_frames[k].name = frame_name}
        frame == all_frames[CHOOSE k \in owner : TRUE]
        primary == IF owner = {} THEN None ELSE find_primary_hook(frame)
        foreign == IF primary = None \/ depth = 0 THEN <<>>
                   ELSE get_foreign_hooks(frame, primary, all_frames)
    IN  IF primary = None THEN <<>>
        ELSE <<"peripheral", "_pit" \o primary, primary>>
             \o Flatten([i \in 1..Len(foreign) |->
                    PitColumns(BridgeColumns(
                        get_foreign_frame_name(foreign[i].name, all_frames),
                        all_frames, depth - 1))])
             \o RecordColumns

\* build_join_for_hook: {} (here: a record with no right table) when no frame
\* owns the hook, else the LEFT join on hook equality and strict overlap of the
\* validity periods, the _pit columns of the right table, and its name
build_join_for_hook(hook, left_table, all_frames) ==
    LET fk == hook.name
        foreign_frame_name == get_foreign_frame_name(fk, all_frames)
        right_table_name == "_bridge__" \o foreign_frame_name
        right_table == "dar.uss__staging." \o right_table_name
        right_columns == BridgeColumns(foreign_frame_name, all_frames, MaxFrames)
        pit_columns == PitColumns(right_columns)
    IN  IF foreign_frame_name = None
        THEN [right_table_name |-> None, join |-> <<>>, pit_hooks |-> <<>>]
        ELSE [right_table_name |-> right_table_name,
              join |-> [this |-> right_table,
                        kind |-> "LEFT",
                        eq |-> <<Column(left_table, fk), Column(right_table_name, fk)>>,
                        lt |-> <<Column(left_table, "_record__valid_from"),
                                 Column(right_table_name, "_record__valid_to")>>,
                        gt |-> <<Column(left_table, "_record__valid_to"),
                                 Column(right_table_name, "_record__valid_from")>>],
              pit_hooks |-> [i \in 1..Len(pit_columns) |->
                                Column(right_table_name, pit_columns[i])]]

\* build_joins: one join per foreign hook that build_join_for_hook resolves
RECURSIVE build_joins(_, _, _)
build_joins(foreign_hooks, left_table, all_frames) ==
    IF foreign_hooks = <<>>
    THEN [joins |-> <<>>, foreign_hook_columns |-> <<>>,
          record_metadata_tables |-> <<left_table>>]
    ELSE LET n == Len(foreign_hooks)
             front == build_joins(SubSeq(foreign_hooks, 1, n - 1), left_table, all_frames)
             join_data == build_join_for_hook(foreign_hooks[n], left_table, all_frames)
         IN  IF join_data.right_table_name = None THEN front
             ELSE [joins |-> Append(front.joins, join_data.join),
                   foreign_hook_columns |-> front.foreign_hook_columns \o join_data.pit_hooks,
                   record_metadata_tables |->
                       Append(front.record_metadata_tables, join_data.right_table_name)]

\* the variant that calls func_name also when there is one table
validity_expression_always_call(column_name, func_name, tables) ==
    Func(func_name, [i \in 1..Len(tables) |-> Column(tables[i], column_name)])

\* validity_expression: func_name over the column of every table, or the
\* column itself when there is one table
validity_expression(column_name, func_name, tables) ==
    LET columns == [i \in 1..Len(tables) |-> Column(tables[i], column_name)]
    IN  IF Len(columns) > 1 THEN Func(func_name, columns) ELSE columns[1]

\* the variant taking GREATEST of _record__valid_to
build_validity_expressions_greatest_valid_to(tables) ==
    [record__updated_at |-> validity_expression("_record__updated_at", "GREATEST", tables),
     record__valid_from |-> validity_expression("_record__valid_from", "GREATEST", tables),
     record__valid_to   |-> validity_expression("_record__valid_to", "GREATEST", tables),
     record__is_current |-> validity_expression("_record__is_current", "LEAST", tables)]

\* the variant taking GREATEST of _record__is_current
build_validity_expressions_greatest_is_current(tables) ==
    [record__updated_at |-> validity_expression("_record__updated_at", "GREATEST", tables),
     record__valid_from |-> validity_expression("_record__valid_from", "GREATEST", tables),
     record__valid_to   |-> validity_expression("_record__valid_to", "LEAST", tables),
     record__is_current |-> validity_expression("_record__is_current", "GREATEST", tables)]

\* build_validity_expressions: GREATEST of updated_at and valid_from, LEAST of
\* valid_to and is_current, over the tables that carry record metadata
build_validity_expressions(tables) ==
    [record__updated_at |-> validity_expression("_record__updated_at", "GREATEST", tables),
     record__valid_from |-> validity_expression("_record__valid_from", "GREATEST", tables),
     record__valid_to   |-> validity_expression("_record__valid_to", "LEAST", tables),
     record__is_current |-> validity_expression("_record__is_current", "LEAST", tables)]

\* the variant that tags the row with the name of the left table
peripheral_expression_left_table(name) ==
    Alias(Func("CAST_TEXT", <<Literal("frame__" \o name)>>), "peripheral")

\* CAST('<name>' AS text) AS peripheral
peripheral_expression(name) ==
    Alias(Func("CAST_TEXT", <<Literal(name)>>), "peripheral")

\* entrypoint of dar.uss__staging._bridge__<name>: a ValueError naming the
\* frame when it has no primary hook, else the plan
bridge_entrypoint(blueprint, all_frames, start_ts, end_ts) ==
    LET name == blueprint.name
        frame == [hooks |-> blueprint.hooks, composite_hooks |-> blueprint.composite_hooks]
        primary_hook == find_primary_hook(frame)
        foreign_hooks == get_foreign_hooks(frame, primary_hook, all_frames)
        left_table == "frame__" \o name
        join_data == build_joins(foreign_hooks, left_table, all_frames)
        validity_expressions == build_validity_expressions(join_data.record_metadata_tables)
    IN  IF primary_hook = None
        THEN [kind |-> "error", error |-> "ValueError",
              message |-> "No primary hook found for frame " \o name]
        ELSE [kind |-> "plan",
              select |->
                  <<peripheral_expression(name),
                    Alias(Column(left_table, "_pit" \o primary_hook), "_pit" \o primary_hook),
                    Alias(Column(left_table, primary_hook), primary_hook)>>
                  \o [i \in 1..Len(join_data.foreign_hook_columns) |->
                        Alias(join_data.foreign_hook_columns[i],
                              join_data.foreign_hook_columns[i].name)]
                  \o <<Alias(validity_expressions.record__updated_at, "_record__updated_at"),
                       Alias(validity_expressions.record__valid_from, "_record__valid_from"),
                       Alias(validity_expressions.record__valid_to, "_record__valid_to"),
                       Alias(validity_expressions.record__is_current, "_record__is_current")>>,
              from |-> "dab.hook.frame__" \o name,
              left_table |-> left_table,
              joins |-> join_data.joins,
              tables |-> join_data.record_metadata_tables,
              where |-> BetweenExpr(validity_expressions.record__updated_at, start_ts, end_ts)]

(***************************************************************************)
(* Hook Resolver (dab__hook__blueprint.py).                                *)
(***************************************************************************)
\* build_hook_expression: CONCAT('<keyset>|', CAST(expression AS text)) AS name;
\* nothing (the empty list) for a hook without name or expression
build_hook_expression(hook) ==
    IF hook.name = None \/ hook.expression = None THEN <<>>
    ELSE <<[alias |-> hook.name,
            expr |-> Func("CONCAT",
                          <<Literal(hook.keyset \o "|"),
                            Func("CAST_TEXT", <<Column("", hook.expression)>>)>>)]>>

\* build_composite_hook_expression: CONCAT_WS('~', child hooks...) AS name
build_composite_hook_expression(hook) ==
    IF hook.name = None \/ hook.hooks = <<>> THEN <<>>
    ELSE <<[alias |-> hook.name,
            expr |-> Func("CONCAT_WS",
                          <<Literal("~")>> \o
                          [i \in 1..Len(hook.hooks) |-> Column("", hook.hooks[i])])]>>

\* the variant that leaves the '~epoch__valid_from|' literal out
build_primary_hook_expression_no_delimiter(primary_hook) ==
    [alias |-> "_pit" \o primary_hook,
     expr |-> Func("CONCAT",
                   <<Column("", primary_hook),
                     Func("CAST_TEXT", <<Column("", "_record__valid_from")>>)>>)]

\* build_primary_hook_expression:
\* CONCAT(primary, '~epoch__valid_from|', CAST(_record__valid_from AS text))
build_primary_hook_expression(primary_hook) ==
    [alias |-> "_pit" \o primary_hook,
     expr |-> Func("CONCAT",
                   <<Column("", primary_hook), Literal("~epoch__valid_from|"),
                     Func("CAST_TEXT", <<Column("", "_record__valid_from")>>)>>)]

\* process_hooks: the names of the named hooks, the name of the last named
\* hook marked primary (None when there is none), and the expressions built
RECURSIVE process_hooks(_)
process_hooks(hooks) ==
    IF hooks = <<>>
    THEN [all_hooks |-> <<>>, primary_hook |-> None, expressions |-> <<>>]
    ELSE LET n == Len(hooks)
             front == process_hooks(SubSeq(hooks, 1, n - 1))
             hook == hooks[n]
         IN  IF hook.name = None THEN front
             ELSE [all_hooks |-> Append(front.all_hooks, hook.name),
                   primary_hook |-> IF hook.primary THEN hook.name ELSE front.primary_hook,
                   expressions |-> front.expressions \o build_hook_expression(hook)]

\* process_composite_hooks: the same over the composite hooks
RECURSIVE process_composite_hooks(_)
process_composite_hooks(composite_hooks) ==
    IF composite_hooks = <<>>
    THEN [all_hooks |-> <<>>, primary_hook |-> None, expressions |-> <<>>]
    ELSE LET n == Len(composite_hooks)
             front == process_composite_hooks(SubSeq(composite_hooks, 1, n - 1))
             hook == composite_hooks[n]
         IN  IF hook.name = None THEN front
             ELSE [all_hooks |-> Append(front.all_hooks, hook.name),
                   primary_hook |-> IF hook.primary THEN hook.name ELSE front.primary_hook,
                   expressions |-> front.expressions \o build_composite_hook_expression(hook)]

Star == Column("", "*")

\* build_cte_primary_hook: SELECT <primary hook expression>, * FROM
\* cte__composite_hooks
build_cte_primary_hook_skipping_composites(primary_hook_expression) ==
    [name |-> "cte__primary_hooks",
     select |-> <<primary_hook_expression, Alias(Star, "*")>>,
     from |-> "cte__hooks"]

build_cte_primary_hook(primary_hook_expression) ==
    [name |-> "cte__primary_hooks",
     select |-> <<primary_hook_expression, Alias(Star, "*")>>,
     from |-> "cte__composite_hooks"]

\* evaluator.columns_to_types("das.scd.<name>").keys()
ScdColumns == <<"id">> \o RecordColumns

\* entrypoint of dab.hook.<name>: a ValueError when no named hook or composite
\* hook is marked primary, else the layered plan
hook_entrypoint(blueprint, start_ts, end_ts) ==
    LET name == blueprint.name
        source_table == "das.scd." \o name
        source_columns == ScdColumns
        simple == process_hooks(blueprint.hooks)
        composite == process_composite_hooks(blueprint.composite_hooks)
        all_hooks == simple.all_hooks \o composite.all_hooks
        primary_hook == IF composite.primary_hook # None THEN composite.primary_hook
                        ELSE simple.primary_hook
    IN  IF primary_hook = None
        THEN [kind |-> "error", error |-> "ValueError",
              message |-> "Primary hook is missing or invalid."]
        ELSE [kind |-> "plan",
              ctes |-> <<[name |-> "cte__source", select |-> <<Alias(Star, "*")>>,
                          from |-> source_table],
                         [name |-> "cte__hooks",
                          select |-> simple.expressions \o <<Alias(Star, "*")>>,
                          from |-> "cte__source"],
                         [name |-> "cte__composite_hooks",
                          select |-> composite.expressions \o <<Alias(Star, "*")>>,
                          from |-> "cte__hooks"],
                         build_cte_primary_hook(
                             build_primary_hook_expression(primary_hook))>>,
              select |-> <<"_pit" \o primary_hook>> \o all_hooks \o source_columns,
              from |-> "cte__primary_hooks",
              where |-> BetweenExpr(Column("", "_record__updated_at"), start_ts, end_ts)]

(***************************************************************************)
(* Event Unpivot Builder (dar/dar__event__blueprint.py).  Table names are   *)
(* sequences of their dotted parts.                                        *)
(***************************************************************************)
\* an entry of a blueprint's events; NoSource stands for an absent "source"
NoSource == <<>>

Event(name, event_source, join_on, expression) ==
    [name |-> name, source |-> event_source, join_on |-> join_on, expression |-> expression]

EventModel(name, events) == [name |-> name, events |-> events]

\* f"dar.uss__staging._bridge__{name}"
bridge_table_of(name) == <<"dar", "uss__staging", "_bridge__" \o name>>

\* event.get("source", f"dab.hook.{name}")
EventSource(event, name) ==
    IF event.source = NoSource THEN <<"dab", "hook", name>> ELSE event.source

\* source.split(".")[-1]
SourceTable(event_source) == event_source[Len(event_source)]

\* the events the loop does not skip
ValidEvent(event) == event.name # None /\ event.expression # None

\* sources_to_join after the loop: one entry per source, in the order of first
\* insertion, holding the join_on of the last event that named the source
RECURSIVE sources_to_join(_, _)
sources_to_join(events, name) ==
    IF events = <<>> THEN <<>>
    ELSE LET n == Len(events)
             front == sources_to_join(SubSeq(events, 1, n - 1), name)
             event == events[n]
             event_source == EventSource(event, name)
         IN  IF ~ValidEvent(event) \/ event_source = bridge_table_of(name) \/ event.join_on = None
             THEN front
             ELSE IF \E i \in 1..Len(front) : front[i].source = event_source
             THEN [i \in 1..Len(front) |->
                     IF front[i].source = event_source
                     THEN [source |-> event_source, join_on |-> event.join_on]
                     ELSE front[i]]
             ELSE Append(front, [source |-> event_source, join_on |-> event.join_on])

\* CAST(<source_table>.<expression> AS TIMESTAMP) AS <event_name>, per valid event
event_columns(events, name) ==
    LET valid == SelectSeq(events, ValidEvent)
    IN  [i \in 1..Len(valid) |->
            Alias(Func("CAST_TIMESTAMP",
                       <<Column(SourceTable(EventSource(valid[i], name)), valid[i].expression)>>),
                  valid[i].name)]

\* the final SELECT list: the bridge's other columns, event, event_occurred_on,
\* event_occurred_at, the bridge's _record__ columns
final_fields(bridge_columns) ==
    LET record_columns == SelectSeq(bridge_columns, LAMBDA c : StartsWith(c, "_record__"))
        non_record_columns == SelectSeq(bridge_columns, LAMBDA c : ~StartsWith(c, "_record__"))
    IN  [i \in 1..Len(non_record_columns) |->
            Alias(Column("", non_record_columns[i]), non_record_columns[i])]
        \o <<Alias(Column("", "event"), "event"),
             Alias(Func("CAST_DATE", <<Column("", "event_occurred_at")>>), "event_occurred_on"),
             Alias(Func("CAST_TIME", <<Column("", "event_occurred_at")>>), "event_occurred_at")>>
        \o [i \in 1..Len(record_columns) |->
              Alias(Column("", record_columns[i]), record_columns[i])]

WhereFalse == [kind |-> "false"]

\* 1 = 1 AND _record__updated_at BETWEEN start_ts AND end_ts
WhereWindow(start_ts, end_ts) ==
    [kind |-> "and", eq |-> <<1, 1>>,
     between |-> BetweenExpr(Column("", "_record__updated_at"), start_ts, end_ts)]

\* exp.select(exp.Literal.number(1)).where(exp.false())
EmptyPlan ==
    [kind |-> "plan", empty |-> TRUE, select |-> <<Alias(Literal(1), "1")>>,
     where |-> WhereFalse]

build_event_bridge_sql(name, events, bridge_columns, start_ts, end_ts) ==
    LET bridge_table == bridge_table_of(name)
        columns == event_columns(events, name)
        event_names == [i \in 1..Len(columns) |-> columns[i].alias]
        to_join == sources_to_join(events, name)
    IN  IF event_names = <<>>
        THEN EmptyPlan
        ELSE [kind |-> "plan", empty |-> FALSE,
              cte__source |-> [select |-> <<Alias(Star, "*")>>, from |-> bridge_table],
              cte__events |->
                  [select |-> [i \in 1..Len(bridge_columns) |->
                                 Alias(Column("cte__source", bridge_columns[i]),
                                       bridge_columns[i])]
                              \o columns,
                   from |-> "cte__source",
                   joins |-> [i \in 1..Len(to_join) |->
                                [this |-> to_join[i].source, kind |-> "LEFT",
                                 eq |-> <<Column("cte__source", to_join[i].join_on),
                                          Column(SourceTable(to_join[i].source),
                                                 to_join[i].join_on)>>]]],
              cte__unpivot |-> [from |-> "cte__events", value |-> "event_occurred_at",
                                name |-> "event", in |-> event_names],
              select |-> final_fields(bridge_columns),
              from |-> "cte__unpivot",
              where |-> WhereWindow(start_ts, end_ts)]

\* entrypoint of dar.uss__staging._event_bridge__<name>
event_entrypoint(blueprint, bridge_columns, start_ts, end_ts) ==
    build_event_bridge_sql(blueprint.name, blueprint.events, bridge_columns, start_ts, end_ts)

(***************************************************************************)
(* Evaluation of expressions and of the bridge plan over tables.  A row is *)
(* a function from column names to nullable values; an entry of a joined   *)
(* row is the row a table contributed, or no row where a LEFT join found   *)
(* no match.                                                               *)
(***************************************************************************)
Max(S) == CHOOSE x \in S : \A y \in S : y <= x

Min(S) == CHOOSE x \in S : \A y \in S : x <= y

Matched(row) == [matched |-> TRUE, row |-> row]

Unmatched == [matched |-> FALSE, row |-> <<>>]

\* GREATEST / LEAST: NULL arguments are ignored; NULL when every argument is NULL
Greatest(values) ==
    LET present == {v[1] : v \in {w \in values : w # NULL}}
    IN  IF present = {} THEN NULL ELSE Some(Max(present))

Least(values) ==
    LET present == {v[1] : v \in {w \in values : w # NULL}}
    IN  IF present = {} THEN NULL ELSE Some(Min(present))

\* a column of a joined row: NULL when its table contributed no row
EvalColumn(expr, tables, joined) ==
    LET k == CHOOSE k \in 1..Len(tables) : tables[k] = expr.table
    IN  IF joined[k].matched THEN joined[k].row[expr.name] ELSE NULL

EvalExpr(expr, tables, joined) ==
    CASE expr.kind = "column" -> EvalColumn(expr, tables, joined)
      [] expr.kind = "literal" -> Some(expr.name)
      [] expr.kind = "func" /\ expr.name = "CAST_TEXT" -> Some(expr.args[1].name)
      [] expr.kind = "func" /\ expr.name = "GREATEST" ->
            Greatest({EvalColumn(expr.args[i], tables, joined) : i \in 1..Len(expr.args)})
      [] expr.kind = "func" /\ expr.name = "LEAST" ->
            Least({EvalColumn(expr.args[i], tables, joined) : i \in 1..Len(expr.args)})

\* a range without its upper end
BetweenHalfOpen(x, low, high) == low <= x /\ x < high

\* x BETWEEN low AND high: both ends belong to the range
Between(x, low, high) == low <= x /\ x <= high

\* the WHERE clause of a plan: this BETWEEN start_ts AND end_ts, not true of NULL
EvalWhere(where, tables, joined) ==
    LET v == EvalExpr(where.this, tables, joined)
    IN  v # NULL /\ Between(v[1], where.low, where.high)

\* the variant whose validity comparisons are not strict
JoinOnClosedOverlap(join, left, right) ==
    LET lk == left[join.eq[1].name]
        rk == right[join.eq[2].name]
    IN  /\ lk # NULL /\ rk # NULL /\ lk = rk
        /\ left[join.lt[1].name][1] <= right[join.lt[2].name][1]
        /\ left[join.gt[1].name][1] >= right[join.gt[2].name][1]

\* the ON condition of a bridge join: equal hook values and validity periods
\* that overlap strictly
JoinOn(join, left, right) ==
    LET lk == left[join.eq[1].name]
        rk == right[join.eq[2].name]
    IN  /\ lk # NULL /\ rk # NULL /\ lk = rk
        /\ left[join.lt[1].name][1] < right[join.lt[2].name][1]
        /\ left[join.gt[1].name][1] > right[join.gt[2].name][1]

\* what a LEFT join contributes for one left row: each matching right row, or
\* no row when none matches
JoinChoices(join, left, data) ==
    LET matches == {r \in data[join.this] : JoinOn(join, left, r)}
    IN  IF matches = {} THEN {Unmatched} ELSE {Matched(r) : r \in matches}

\* FROM dab.hook.frame__<name> LEFT JOIN ...: every joined row, as the entries
\* of the plan's tables in order
JoinedRows(plan, data) ==
    LET n == Len(plan.joins)
        entries(l) == UNION {JoinChoices(plan.joins[j], l, data) : j \in 1..n}
    IN  UNION { { <<Matched(l)>> \o f :
                    f \in {g \in [1..n -> entries(l)] :
                              \A j \in 1..n : g[j] \in JoinChoices(plan.joins[j], l, data)} } :
                l \in data[plan.from] }

\* the SELECT list evaluated on one joined row
ProjectRow(plan, joined) ==
    [a \in {plan.select[i].alias : i \in 1..Len(plan.select)} |->
        LET i == CHOOSE i \in 1..Len(plan.select) : plan.select[i].alias = a
        IN  EvalExpr(plan.select[i].expr, plan.tables, joined)]

\* every joined row with the row projected from it
BridgeJoined(plan, data) ==
    {[joined |-> j, row |-> ProjectRow(plan, j)] : j \in JoinedRows(plan, data)}

\* the plan's result: the joined rows that pass the WHERE clause
BridgePlanRows(plan, joined_rows) ==
    {o \in joined_rows : EvalWhere(plan.where, plan.tables, o.joined)}

(***************************************************************************)
(* SpecBridge: compile the bridge plan of one frame of the catalog for a   *)
(* time window, fill the tables it reads, evaluate it.                     *)
(***************************************************************************)
BridgeCatalog ==
    <<FrameCustomers, FrameProducts, FrameOrders, FrameOrderDetails, FrameOrphans>>

\* timestamps 10, 15, ...
Times == {10 + 5 * k : k \in 0..MaxTick}

\* validity periods [a, b) of length 10 or 20
Periods == {p \in Times \X Times : p[2] - p[1] \in {10, 20}}

\* values of _record__updated_at, and the windows the scheduler hands out
UpdatedAts == {t \in Times : t % 10 = 0}

Windows == {w \in UpdatedAts \X UpdatedAts : w[2] = w[1] + 10}

HookKeys == {"k1", "k2"}

\* timestamps of events
EventTimes == {15, 30}

\* CONCAT(hook, '~epoch__valid_from|', CAST(valid_from AS text))
PitValue(key, valid_from) == key \o "~epoch__valid_from|" \o ToString(valid_from)

RecordValue(c, period, updated_at, is_current) ==
    CASE c = "_record__updated_at" -> Some(updated_at)
      [] c = "_record__valid_from" -> Some(period[1])
      [] c = "_record__valid_to" -> Some(period[2])
      [] c = "_record__is_current" -> Some(is_current)

IsRecordColumn(c) == \E i \in 1..Len(RecordColumns) : RecordColumns[i] = c

\* a row of dab.hook.frame__<name>: every hook column holds key
HookRow(frame, key, period, updated_at, is_current) ==
    LET primary == find_primary_hook(frame)
        hooks == {AllHooksOf(frame)[i].name : i \in 1..Len(AllHooksOf(frame))}
    IN  [c \in hooks \cup {"_pit" \o primary} \cup {RecordColumns[i] : i \in 1..4} |->
            IF IsRecordColumn(c) THEN RecordValue(c, period, updated_at, is_current)
            ELSE IF c = "_pit" \o primary THEN Some(PitValue(key, period[1]))
            ELSE Some(key)]

\* a row of dar.uss__staging._bridge__<name>; the _pit columns it took from
\* its own joins are NULL (those joins found no match)
BridgeRow(frame, all_frames, key, period, updated_at, is_current) ==
    LET primary == find_primary_hook(frame)
        columns == BridgeColumns(frame.name, all_frames, MaxFrames)
    IN  [c \in {columns[i] : i \in 1..Len(columns)} |->
            IF IsRecordColumn(c) THEN RecordValue(c, period, updated_at, is_current)
            ELSE IF c = "peripheral" THEN Some(frame.name)
            ELSE IF c = "_pit" \o primary THEN Some(PitValue(key, period[1]))
            ELSE IF c = primary THEN Some(key)
            ELSE NULL]

FrameNamed(name, all_frames) ==
    all_frames[CHOOSE k \in 1..Len(all_frames) : all_frames[k].name = name]

\* the frame whose bridge table a join reads
JoinedFrame(join, all_frames) ==
    FrameNamed(CHOOSE n \in {all_frames[k].name : k \in 1..Len(all_frames)} :
                   join.this = "dar.uss__staging._bridge__" \o n,
               all_frames)

\* what decides a row: a hook key, a validity period, _record__updated_at
\* and _record__is_current
RowParams == HookKeys \X Periods \X UpdatedAts \X {0, 1}

HookRows(frame) ==
    {HookRow(frame, "k1", x[2], x[3], x[4]) : x \in {y \in RowParams : y[1] = "k1"}}

\* the tables a plan reads
PlanTables(plan) == {plan.from} \cup {plan.joins[j].this : j \in 1..Len(plan.joins)}

\* the contents of the tables of a plan: the row left in the frame's hook
\* table and, per join, the rows right[j] in the bridge table joined (a set
\* of row parameters)
TableContents(plan, all_frames, left, right) ==
    [t \in PlanTables(plan) |->
        IF t = plan.from THEN {left}
        ELSE LET j == CHOOSE j \in 1..Len(plan.joins) : plan.joins[j].this = t
             IN  {BridgeRow(JoinedFrame(plan.joins[j], all_frames), all_frames,
                            x[1], x[2], x[3], x[4]) : x \in right[j]}]

BridgeIdle ==
    /\ bframe = 0 /\ bplan = <<>> /\ bdata = <<>> /\ bjoined = {} /\ boutput = {}
    /\ bpc = "idle"

InitBridge ==
    /\ bframe = 0 /\ bplan = <<>> /\ bdata = <<>> /\ bjoined = {} /\ boutput = {}
    /\ bpc = "start"

\* the scheduler calls the entrypoint for one blueprint and one window
CompileBridge ==
    /\ bpc = "start"
    /\ \E i \in 1..Len(BridgeCatalog), w \in Windows :
         /\ bframe' = i
         /\ bplan' = bridge_entrypoint(BridgeCatalog[i], BridgeCatalog, w[1], w[2])
         /\ bpc' = IF bplan'.kind = "plan" THEN "compiled" ELSE "failed"
    /\ UNCHANGED <<bdata, bjoined, boutput>>
    /\ UNCHANGED notBridge

\* the upstream models have filled the tables the plan reads: one row in the
\* frame's hook table, at most one row in each bridge table joined
FillBridgeTables ==
    /\ bpc = "compiled"
    /\ \E left \in HookRows(BridgeCatalog[bframe]) :
       \E right \in [1..Len(bplan.joins) -> {{}} \cup {{x} : x \in RowParams}] :
          bdata' = TableContents(bplan, BridgeCatalog, left, right)
    /\ bpc' = "filled"
    /\ UNCHANGED <<bframe, bplan, bjoined, boutput>>
    /\ UNCHANGED notBridge

\* the executor evaluates the plan
EvaluateBridge ==
    /\ bpc = "filled"
    /\ bjoined' = BridgeJoined(bplan, bdata)
    /\ boutput' = BridgePlanRows(bplan, bjoined')
    /\ bpc' = "evaluated"
    /\ UNCHANGED <<bframe, bplan, bdata>>
    /\ UNCHANGED notBridge

(***************************************************************************)
(* Evaluation of the hook plan.                                            *)
(***************************************************************************)
\* CONCAT: NULL arguments count as the empty string
RECURSIVE ConcatValues(_)
ConcatValues(values) ==
    IF values = <<>> THEN ""
    ELSE (IF Head(values) = NULL THEN "" ELSE Head(values)[1]) \o ConcatValues(Tail(values))

\* CONCAT_WS: NULL arguments are skipped, the others are joined by sep
RECURSIVE ConcatWs(_, _)
ConcatWs(sep, values) ==
    LET present == SelectSeq(values, LAMBDA v : v # NULL)
    IN  IF present = <<>> THEN ""
        ELSE IF Len(present) = 1 THEN present[1][1]
        ELSE present[1][1] \o sep \o ConcatWs(sep, Tail(present))

\* an expression of the hook plan on one row
RECURSIVE EvalScalar(_, _)
EvalScalar(expr, row) ==
    CASE expr.kind = "column" -> row[expr.name]
      [] expr.kind = "literal" -> Some(expr.name)
      [] expr.kind = "func" /\ expr.name = "CAST_TEXT" ->
            LET v == EvalScalar(expr.args[1], row)
            IN  IF v = NULL THEN NULL ELSE Some(ToString(v[1]))
      [] expr.kind = "func" /\ expr.name = "CONCAT" ->
            Some(ConcatValues([i \in 1..Len(expr.args) |-> EvalScalar(expr.args[i], row)]))
      [] expr.kind = "func" /\ expr.name = "CONCAT_WS" ->
            Some(ConcatWs(expr.args[1].name,
                          [i \in 1..(Len(expr.args) - 1) |-> EvalScalar(expr.args[i + 1], row)]))

\* SELECT <expressions>, * on one row: the row with the aliased columns added
ExtendRow(row, select) ==
    LET named == {i \in 1..Len(select) : select[i].alias # "*"}
    IN  [c \in DOMAIN row \cup {select[i].alias : i \in named} |->
            IF \E i \in named : select[i].alias = c
            THEN EvalScalar(select[CHOOSE i \in named : select[i].alias = c].expr, row)
            ELSE row[c]]

\* the rows of CTE number k of the plan: the first reads the source table,
\* each later one reads the CTE its FROM names
RECURSIVE CteRows(_, _, _)
CteRows(plan, k, data) ==
    IF k = 1 THEN {ExtendRow(r, plan.ctes[1].select) : r \in data[plan.ctes[1].from]}
    ELSE LET below == CHOOSE j \in 1..(k - 1) : plan.ctes[j].name = plan.ctes[k].from
         IN  {ExtendRow(r, plan.ctes[k].select) : r \in CteRows(plan, below, data)}

\* the hook plan's result: the rows of the CTE it reads that pass the WHERE
\* clause, projected on the SELECT list
HookPlanRows(plan, data) ==
    LET last == CHOOSE k \in 1..Len(plan.ctes) : plan.ctes[k].name = plan.from
        passing == {r \in CteRows(plan, last, data) :
                      LET v == EvalScalar(plan.where.this, r)
                      IN  v # NULL /\ Between(v[1], plan.where.low, plan.where.high)}
    IN  {[c \in {plan.select[i] : i \in 1..Len(plan.select)} |-> r[c]] : r \in passing}

(***************************************************************************)
(* Evaluation of the event plan.                                           *)
(***************************************************************************)
\* what one LEFT join of cte__events contributes for one bridge row
EventJoinChoices(join, left, data) ==
    LET c == join.eq[1].name
        matches == {r \in data[join.this] : left[c] # NULL /\ r[c] # NULL /\ left[c] = r[c]}
    IN  IF matches = {} THEN {Unmatched} ELSE {Matched(r) : r \in matches}

\* the qualifiers FROM cte__source LEFT JOIN ... binds
EventTables(plan) ==
    <<"cte__source">> \o
    [j \in 1..Len(plan.cte__events.joins) |-> SourceTable(plan.cte__events.joins[j].this)]

\* the table qualifier of an expression of cte__events' SELECT list
QualifierOf(expr) == IF expr.kind = "column" THEN expr.table ELSE expr.args[1].table

\* every qualifier the SELECT list of cte__events uses is bound by its FROM
EventPlanBinds(plan) ==
    \A i \in 1..Len(plan.cte__events.select) :
        \E k \in 1..Len(EventTables(plan)) :
            EventTables(plan)[k] = QualifierOf(plan.cte__events.select[i].expr)

\* cte__events: every bridge row with each combination of its join matches,
\* and the row projected from it
cte__events(plan, data) ==
    LET joins == plan.cte__events.joins
        n == Len(joins)
        tables == EventTables(plan)
        select == plan.cte__events.select
        entries(l) == UNION {EventJoinChoices(joins[j], l, data) : j \in 1..n}
        joined_rows ==
            UNION { { <<Matched(l)>> \o f :
                        f \in {g \in [1..n -> entries(l)] :
                                  \A j \in 1..n : g[j] \in EventJoinChoices(joins[j], l, data)} } :
                    l \in data[plan.cte__source.from] }
        value(expr, joined) ==
            IF expr.kind = "column" THEN EvalColumn(expr, tables, joined)
            ELSE EvalColumn(expr.args[1], tables, joined)
    IN  {[joined |-> j,
          row |-> [a \in {select[i].alias : i \in 1..Len(select)} |->
                     LET i == CHOOSE i \in 1..Len(select) : select[i].alias = a
                     IN  value(select[i].expr, j)]] : j \in joined_rows}

\* every event column of every row of cte__events, NULL or not
UnpivotKeepingNulls(plan, widened) ==
    {[of |-> w, event |-> plan.cte__unpivot.in[i],
      event_occurred_at |-> w.row[plan.cte__unpivot.in[i]]] :
        w \in widened, i \in 1..Len(plan.cte__unpivot.in)}

\* cte__unpivot: UNPIVOT(event_occurred_at FOR event IN (names)) turns every
\* event column of a row that is not NULL into a row of its own
cte__unpivot(plan, widened) ==
    {u \in UnpivotKeepingNulls(plan, widened) : u.event_occurred_at # NULL}

\* CAST(timestamp AS DATE) and CAST(timestamp AS TIME(0))
CastDate(ts) == ts \div TicksPerDay

CastTime(ts) == ts % TicksPerDay

\* the final SELECT list on one row of cte__unpivot
EventProjectRow(plan, u) ==
    [a \in {plan.select[i].alias : i \in 1..Len(plan.select)} |->
        CASE a = "event" -> Some(u.event)
          [] a = "event_occurred_on" ->
                IF u.event_occurred_at = NULL THEN NULL
                ELSE Some(CastDate(u.event_occurred_at[1]))
          [] a = "event_occurred_at" ->
                IF u.event_occurred_at = NULL THEN NULL
                ELSE Some(CastTime(u.event_occurred_at[1]))
          [] OTHER -> u.of.row[a]]

\* the WHERE clause of the event plan on a row
EvalEventWhere(where, row) ==
    CASE where.kind = "false" -> FALSE
      [] where.kind = "and" ->
            /\ where.eq[1] = where.eq[2]
            /\ row[where.between.this.name] # NULL
            /\ Between(row[where.between.this.name][1], where.between.low, where.between.high)

\* the rows the event plan returns, each with the cte__unpivot row behind it;
\* the empty plan has no FROM: its single candidate row fails WHERE FALSE
EventPlanRows(plan, unpivoted) ==
    IF plan.empty
    THEN {r \in {[of |-> <<>>, row |-> [a \in {"1"} |-> Some(1)]]} :
            EvalEventWhere(plan.where, r.row)}
    ELSE {r \in {[of |-> u, row |-> EventProjectRow(plan, u)] : u \in unpivoted} :
            EvalEventWhere(plan.where, r.row)}

(***************************************************************************)
(* SpecEvent: generate the event plan of one blueprint, fill the bridge    *)
(* table and the event sources, evaluate.                                  *)
(***************************************************************************)
HookOrders == <<"dab", "hook", "frame__orders">>

HookCustomers == <<"dab", "hook", "frame__customers">>

\* blueprints of models.yml: two events on one source, one event, events that
\* the loop skips (no name, no expression), no events, an event on the
\* default source with and without join_on
EventModels ==
    {EventModel("orders",
                <<Event("order_placed", HookOrders, "_pit_hook__order", "order_date"),
                  Event("order_shipped", HookOrders, "_pit_hook__order", "shipped_date")>>),
     EventModel("customers",
                <<Event("customer_created", HookCustomers, "_pit_hook__customer",
                        "created_at")>>),
     EventModel("orders",
                <<Event(None, HookOrders, "_pit_hook__order", "order_date"),
                  Event("order_shipped", HookOrders, "_pit_hook__order", None)>>),
     EventModel("customers", <<>>),
     EventModel("orders",
                <<Event("order_placed", NoSource, "_pit_hook__order", "order_date")>>),
     EventModel("orders", <<Event("order_placed", NoSource, None, "order_date")>>)}

\* evaluator.columns_to_types("dar.uss__staging._bridge__<name>").keys()
EventBridgeColumns(name) == BridgeColumns(name, BridgeCatalog, MaxFrames)

\* a row of an event source: the join column and the event expressions
SourceRows(plan, j) ==
    LET join == plan.cte__events.joins[j]
        select == plan.cte__events.select
        table == SourceTable(join.this)
        expressions == {select[i].expr.args[1].name :
                          i \in {k \in 1..Len(select) :
                                   select[k].expr.kind = "func"
                                   /\ select[k].expr.args[1].table = table}}
        columns == expressions \cup {join.eq[2].name}
    IN  {[c \in columns |-> IF c = join.eq[2].name THEN Some(PitValue(k, 10)) ELSE f[c]] :
            k \in HookKeys,
            f \in [expressions -> {NULL} \cup {Some(t) : t \in EventTimes}]}

\* per join of cte__events, up to MaxSourceRows rows of its source
SourceContents(plan) ==
    LET n == Len(plan.cte__events.joins)
        all == UNION {SourceRows(plan, j) : j \in 1..n}
    IN  {g \in [1..n -> {S \in SUBSET all : Cardinality(S) <= MaxSourceRows}] :
           \A j \in 1..n : g[j] \subseteq SourceRows(plan, j)}

EventIdle ==
    /\ eblueprint = <<>> /\ eplan = <<>> /\ edata = <<>>
    /\ ewidened = {} /\ eunpivot = {} /\ eoutput = {} /\ epc = "idle"

InitEvent ==
    /\ eblueprint = <<>> /\ eplan = <<>> /\ edata = <<>>
    /\ ewidened = {} /\ eunpivot = {} /\ eoutput = {} /\ epc = "start"

\* the scheduler calls the entrypoint for one blueprint and one window
CompileEvent ==
    /\ epc = "start"
    /\ \E m \in EventModels, w \in Windows :
         /\ eblueprint' = m
         /\ eplan' = event_entrypoint(m, EventBridgeColumns(m.name), w[1], w[2])
    /\ epc' = "compiled"
    /\ UNCHANGED <<edata, ewidened, eunpivot, eoutput>>
    /\ UNCHANGED notEvent

\* the bridge table holds one row; every event source holds up to
\* MaxSourceRows rows
FillEventTables ==
    /\ epc = "compiled"
    /\ IF eplan.empty
       THEN edata' = <<>>
       ELSE \E u \in UpdatedAts :
            \E rows \in SourceContents(eplan) :
              LET frame == FrameNamed(eblueprint.name, BridgeCatalog)
                  tables == {eplan.cte__source.from} \cup
                            {eplan.cte__events.joins[j].this :
                               j \in 1..Len(eplan.cte__events.joins)}
              IN  edata' =
                    [t \in tables |->
                       IF t = eplan.cte__source.from
                       THEN {BridgeRow(frame, BridgeCatalog, "k1", <<10, 20>>, u, TRUE)}
                       ELSE LET j == CHOOSE j \in 1..Len(eplan.cte__events.joins) :
                                        eplan.cte__events.joins[j].this = t
                            IN  rows[j]]
    /\ epc' = "filled"
    /\ UNCHANGED <<eblueprint, eplan, ewidened, eunpivot, eoutput>>
    /\ UNCHANGED notEvent

\* the executor evaluates the plan; a qualifier the FROM clause does not bind
\* is an error of the engine's binder
EvaluateEvent ==
    /\ epc = "filled"
    /\ IF eplan.empty
       THEN /\ ewidened' = {} /\ eunpivot' = {}
            /\ eoutput' = EventPlanRows(eplan, {})
            /\ epc' = "evaluated"
       ELSE IF ~EventPlanBinds(eplan)
       THEN /\ UNCHANGED <<ewidened, eunpivot, eoutput>>
            /\ epc' = "failed"
       ELSE /\ ewidened' = cte__events(eplan, edata)
            /\ eunpivot' = cte__unpivot(eplan, ewidened')
            /\ eoutput' = EventPlanRows(eplan, eunpivot')
            /\ epc' = "evaluated"
    /\ UNCHANGED <<eblueprint, eplan, edata>>
    /\ UNCHANGED notEvent

(***************************************************************************)
(* SpecWindow: each stage's plan is generated for two consecutive windows  *)
(* (a, b) and (b, c) and evaluated over tables holding one row.            *)
(***************************************************************************)
WindowStages == {"hook", "bridge", "event"}

WindowFrame == FrameCustomers

WindowEvents ==
    EventModel(WindowFrame.name,
               <<Event("customer_created", HookCustomers, "_pit_hook__customer", "created_at")>>)

\* a row of das.scd.<name>
ScdRow(id, period, updated_at, is_current) ==
    [c \in {ScdColumns[i] : i \in 1..Len(ScdColumns)} |->
        IF c = "id" THEN Some(id) ELSE RecordValue(c, period, updated_at, is_current)]

\* whether the hook plan for window (start_ts, end_ts) returns the row
HookSelects(updated_at, start_ts, end_ts) ==
    \E plan \in {hook_entrypoint(WindowFrame, start_ts, end_ts)} :
    \E data \in {[t \in {plan.ctes[1].from} |->
                    {ScdRow(1, <<10, 20>>, updated_at, TRUE)}]} :
        HookPlanRows(plan, data) # {}

\* whether the bridge plan for window (start_ts, end_ts) returns the row
BridgeSelects(updated_at, start_ts, end_ts) ==
    \E plan \in {bridge_entrypoint(WindowFrame, BridgeCatalog, start_ts, end_ts)} :
    \E data \in {[t \in {plan.from} |->
                    {HookRow(WindowFrame, "k1", <<10, 20>>, updated_at, TRUE)}]} :
    \E joined_rows \in {BridgeJoined(plan, data)} :
        BridgePlanRows(plan, joined_rows) # {}

\* whether the event plan for window (start_ts, end_ts) returns the event of
\* the row
EventSelects(updated_at, start_ts, end_ts) ==
    \E plan \in {event_entrypoint(WindowEvents, EventBridgeColumns(WindowFrame.name),
                                  start_ts, end_ts)} :
    \E data \in {[t \in {plan.cte__source.from, HookCustomers} |->
                    IF t = plan.cte__source.from
                    THEN {BridgeRow(WindowFrame, BridgeCatalog, "k1", <<10, 20>>,
                                    updated_at, TRUE)}
                    ELSE {[c \in {"_pit_hook__customer", "created_at"} |->
                             IF c = "created_at" THEN Some(15)
                             ELSE Some(PitValue("k1", 10))]}]} :
    \E widened \in {cte__events(plan, data)} :
    \E unpivoted \in {cte__unpivot(plan, widened)} :
        EventPlanRows(plan, unpivoted) # {}

AllWindowBounds == {w \in Times \X Times \X Times : w[1] < w[2] /\ w[2] < w[3]}

WindowIdle == wbounds = <<0, 0, 0>> /\ wupdated = 0 /\ wsel = <<>>

InitWindow ==
    /\ wbounds \in AllWindowBounds
    /\ wupdated \in Times
    /\ wsel = [s \in WindowStages |-> <<>>]

HookWindows ==
    /\ wsel["hook"] = <<>>
    /\ wsel' = [wsel EXCEPT !["hook"] =
                  <<HookSelects(wupdated, wbounds[1], wbounds[2]),
                    HookSelects(wupdated, wbounds[2], wbounds[3])>>]
    /\ UNCHANGED <<wbounds, wupdated>>
    /\ UNCHANGED notWindow

BridgeWindows ==
    /\ wsel["bridge"] = <<>>
    /\ wsel' = [wsel EXCEPT !["bridge"] =
                  <<BridgeSelects(wupdated, wbounds[1], wbounds[2]),
                    BridgeSelects(wupdated, wbounds[2], wbounds[3])>>]
    /\ UNCHANGED <<wbounds, wupdated>>
    /\ UNCHANGED notWindow

EventWindows ==
    /\ wsel["event"] = <<>>
    /\ wsel' = [wsel EXCEPT !["event"] =
                  <<EventSelects(wupdated, wbounds[1], wbounds[2]),
                    EventSelects(wupdated, wbounds[2], wbounds[3])>>]
    /\ UNCHANGED <<wbounds, wupdated>>
    /\ UNCHANGED notWindow

(***************************************************************************)
(* SpecGen: the scheduler calls the hook entrypoint and the bridge         *)
(* entrypoint once for every frame of a catalog, in any order.             *)
(***************************************************************************)
\* catalogs: up to MaxFrames frames of the pool, no frame twice
Catalogs ==
    UNION {{c \in [1..n -> FramePool] : \A i, j \in 1..n : c[i] = c[j] => i = j}
           : n \in 0..MaxFrames}

NotRun == [kind |-> "none"]

GenIdle == gcatalog = <<>> /\ gwindow = <<0, 0>> /\ ghook = <<>> /\ gbridge = <<>>

InitGen ==
    /\ gcatalog \in Catalogs
    /\ gwindow \in Windows
    /\ ghook = [i \in 1..Len(gcatalog) |-> NotRun]
    /\ gbridge = [i \in 1..Len(gcatalog) |-> NotRun]

\* dab.hook.<name> is generated for frame i
GenerateHook ==
    /\ \E i \in 1..Len(gcatalog) :
         /\ ghook[i].kind = "none"
         /\ ghook' = [ghook EXCEPT ![i] = hook_entrypoint(gcatalog[i], gwindow[1], gwindow[2])]
    /\ UNCHANGED <<gcatalog, gwindow, gbridge>>
    /\ UNCHANGED notGen

\* dar.uss__staging._bridge__<name> is generated for frame i
GenerateBridge ==
    /\ \E i \in 1..Len(gcatalog) :
         /\ gbridge[i].kind = "none"
         /\ gbridge' = [gbridge EXCEPT
                          ![i] = bridge_entrypoint(gcatalog[i], gcatalog, gwindow[1], gwindow[2])]
    /\ UNCHANGED <<gcatalog, gwindow, ghook>>
    /\ UNCHANGED notGen

\* the next run of the scheduler (cron) calls the entrypoints of frame i again
GenerateAgain ==
    /\ \A k \in 1..Len(gcatalog) : ghook[k].kind # "none" /\ gbridge[k].kind # "none"
    /\ \E i \in 1..Len(gcatalog) :
         /\ ghook' = [ghook EXCEPT ![i] = hook_entrypoint(gcatalog[i], gwindow[1], gwindow[2])]
         /\ gbridge' = [gbridge EXCEPT
                          ![i] = bridge_entrypoint(gcatalog[i], gcatalog, gwindow[1], gwindow[2])]
    /\ UNCHANGED <<gcatalog, gwindow>>
    /\ UNCHANGED notGen

(***************************************************************************)
(* SpecHook: the hook plan of one frame is generated and evaluated over a   *)
(* das.scd table of a few rows.                                            *)
(***************************************************************************)
MaxScdRows == 3

\* a frame whose composite hook has one child hook
FrameInvoices ==
    Frame("invoices", <<Hook("_hook__order", FALSE)>>,
          <<CompositeHook("_hook__invoice", TRUE, <<"_hook__order">>)>>)

\* a frame with a hook that has a name and no expression, and a hook without
\* a name
FrameReturns ==
    Frame("returns",
          <<Hook("_hook__order", TRUE),
            [Hook("_hook__customer", FALSE) EXCEPT !.expression = None],
            Hook(None, FALSE)>>,
          <<>>)

HookFrames ==
    {FrameCustomers, FrameOrders, FrameOrderDetails, FrameOrphans, FrameShipments,
     FrameInvoices, FrameReturns}

\* the columns an expression reads
RECURSIVE ColumnsRead(_)
ColumnsRead(expr) ==
    CASE expr.kind = "column" -> IF expr.name = "*" THEN {} ELSE {expr.name}
      [] expr.kind = "literal" -> {}
      [] expr.kind = "func" -> UNION {ColumnsRead(expr.args[i]) : i \in 1..Len(expr.args)}

\* the columns of the rows of CTE number k: those of the CTE it reads (of the
\* source table for the first) and the aliases of its SELECT list
RECURSIVE CteColumns(_, _)
CteColumns(plan, k) ==
    IF k = 0 THEN {ScdColumns[i] : i \in 1..Len(ScdColumns)}
    ELSE CteColumns(plan, k - 1)
         \cup ({plan.ctes[k].select[i].alias : i \in 1..Len(plan.ctes[k].select)} \ {"*"})

\* the engine's binder: every column an expression of a CTE reads is a column
\* of the CTE below it, and every column of the final SELECT list is a column
\* of the last CTE
HookPlanBinds(plan) ==
    /\ \A k \in 1..Len(plan.ctes) :
          \A i \in 1..Len(plan.ctes[k].select) :
              ColumnsRead(plan.ctes[k].select[i].expr) \subseteq CteColumns(plan, k - 1)
    /\ \A i \in 1..Len(plan.select) : plan.select[i] \in CteColumns(plan, Len(plan.ctes))

\* the rows das.scd.<name> may hold: business keys 1 and 11, valid from 1 or 11
ScdRowPool ==
    {ScdRow(id, <<valid_from, 20>>, updated_at, 1) :
        id \in {1, 11}, valid_from \in {1, 11}, updated_at \in UpdatedAts}

HookIdle == kframe = <<>> /\ kplan = <<>> /\ kdata = <<>> /\ koutput = {} /\ kpc = "idle"

InitHook == kframe = <<>> /\ kplan = <<>> /\ kdata = <<>> /\ koutput = {} /\ kpc = "start"

\* the scheduler calls the entrypoint for one blueprint and one window
CompileHook ==
    /\ kpc = "start"
    /\ \E f \in HookFrames, w \in Windows :
         /\ kframe' = f
         /\ kplan' = hook_entrypoint(f, w[1], w[2])
         /\ kpc' = IF kplan'.kind = "plan" THEN "compiled" ELSE "failed"
    /\ UNCHANGED <<kdata, koutput>>
    /\ UNCHANGED notHook

\* the upstream model has filled das.scd.<name>
FillHookTable ==
    /\ kpc = "compiled"
    /\ \E rows \in SUBSET ScdRowPool :
         /\ Cardinality(rows) <= MaxScdRows
         /\ kdata' = [t \in {kplan.ctes[1].from} |-> rows]
    /\ kpc' = "filled"
    /\ UNCHANGED <<kframe, kplan, koutput>>
    /\ UNCHANGED notHook

\* the executor evaluates the plan; a column that nothing below produces is
\* an error of the engine's binder
EvaluateHook ==
    /\ kpc = "filled"
    /\ IF HookPlanBinds(kplan)
       THEN koutput' = HookPlanRows(kplan, kdata) /\ kpc' = "evaluated"
       ELSE koutput' = koutput /\ kpc' = "failed"
    /\ UNCHANGED <<kframe, kplan, kdata>>
    /\ UNCHANGED notHook

(***************************************************************************)
(* SpecRawPlan: the raw plan is generated for a blueprint with any column   *)
(* metadata, the empty one included, and evaluated on the first run, when   *)
(* das.raw.<name> holds nothing.                                           *)
(***************************************************************************)
\* build_sql_select: the plan over cte__source and cte__deduplicated
build_sql_select(name, source_table, source_columns, columns_to_hash) ==
    [kind |-> "plan",
     cte__source |-> [select |-> source_columns \o <<"_record__hash", "_record__loaded_at">>,
                      hashed |-> columns_to_hash,
                      from |-> source_table],
     cte__deduplicated |-> [partition_by |-> "_record__hash",
                            order |-> "_record__loaded_at",
                            from |-> "cte__source"],
     select |-> source_columns \o <<"_record__hash", "_record__loaded_at">>,
     from |-> "cte__deduplicated",
     where |-> [kind |-> "eq", this |-> "_record__hash__version", value |-> 1],
     anti_join |-> "das.raw." \o name]

\* entrypoint of das.raw.<name>; <<>> stands for column metadata that are
\* empty or absent ("not columns")
raw_entrypoint(name, schema, columns) ==
    IF name = None
    THEN [kind |-> "error", error |-> "ValueError",
          message |-> "Blueprint variable 'name' must be a non-empty string"]
    ELSE LET source_table == "landing_zone." \o schema \o "." \o name
             source_columns == build_source_columns(columns)
             columns_to_hash == get_columns_to_hash(source_columns)
         IN  build_sql_select(name, source_table, source_columns, columns_to_hash)

\* the column metadata a blueprint may carry: the columns of the landing
\* table, some of them, or none
RawMetadata ==
    {SelectSeq(Columns, LAMBDA c : c \in S) : S \in SUBSET {Columns[i] : i \in 1..Len(Columns)}}

\* the results the plan may return over the landing table src and the target
\* table tgt, one per numbering of cte__deduplicated
RawPlanResults(plan, src, tgt) ==
    {IF plan.where.kind = "false" THEN {}
     ELSE {[c \in {plan.select[i] : i \in 1..Len(plan.select)} |->
              CASE c = "_record__hash" -> r._record__hash
                [] c = "_record__loaded_at" -> Some(r._record__loaded_at)
                [] OTHER -> r.row[c]] :
           r \in RawPlanRows(cte__deduplicated(cte__source(src, plan.cte__source.hashed), ver), tgt)}
     : ver \in RowNumberings(cte__source(src, plan.cte__source.hashed))}

RawPlanIdle ==
    pcolumns = <<>> /\ pplan = <<>> /\ psource = {} /\ poutput = {} /\ ppc = "idle"

InitRawPlan ==
    pcolumns = <<>> /\ pplan = <<>> /\ psource = {} /\ poutput = {} /\ ppc = "start"

\* the scheduler calls the entrypoint for one blueprint
CompileRaw ==
    /\ ppc = "start"
    /\ pcolumns' \in RawMetadata
    /\ pplan' = raw_entrypoint("orders", "northwind", pcolumns')
    /\ ppc' = "compiled"
    /\ UNCHANGED <<psource, poutput>>
    /\ UNCHANGED notRawPlan

\* the loader fills the landing table
LandRaw ==
    /\ ppc = "compiled"
    /\ psource' \in Loads
    /\ ppc' = "landed"
    /\ UNCHANGED <<pcolumns, pplan, poutput>>
    /\ UNCHANGED notRawPlan

\* the executor evaluates the plan; das.raw.<name> is empty
EvaluateRaw ==
    /\ ppc = "landed"
    /\ poutput' \in RawPlanResults(pplan, psource, EmptyBag)
    /\ ppc' = "evaluated"
    /\ UNCHANGED <<pcolumns, pplan, psource>>
    /\ UNCHANGED notRawPlan

(***************************************************************************)
(* SpecAsOf: dar.uss._bridge__as_of (dar/dar__bridge__as_of.py), the UNION  *)
(* ALL of the event bridges of every frame of models.yml.                  *)
(***************************************************************************)
\* ["dar.uss__staging._event_bridge__" + frame["name"] for frame in frames]
get_table_names(frames) ==
    [i \in 1..Len(frames) |-> "dar.uss__staging._event_bridge__" \o frames[i].name]

\* evaluator.columns_to_types(table).keys() for the event bridge of a frame:
\* the columns the final SELECT of its event plan projects
columns_to_types(table, frames) ==
    LET k == CHOOSE k \in 1..Len(frames) : get_table_names(frames)[k] = table
        fields == final_fields(BridgeColumns(frames[k].name, frames, MaxFrames))
    IN  [i \in 1..Len(fields) |-> fields[i].alias]

\* the column names of the event bridges in Python's order of str (by code
\* point); comparing two names is comparing their places in this list
NamesInOrder ==
    <<"_pit_hook__customer", "_pit_hook__order", "_pit_hook__order__product",
      "_pit_hook__product", "_pit_hook__reference", "_pit_hook__shipment",
      "_pit_hook__waybill", "_record__is_current", "_record__updated_at",
      "_record__valid_from", "_record__valid_to", "event", "event_occurred_at",
      "event_occurred_on", "peripheral">>

IndexIn(seq, x) == CHOOSE i \in 1..Len(seq) : seq[i] = x

\* the variant that sorts every column by its name
sort_key_by_name(col) == <<3, IndexIn(NamesInOrder, col)>>

\* sort_key: (0, col) for peripheral, (1, col) for a _pit_hook__ column,
\* (2, place in record_field_order) for a record field, (3, col) otherwise
sort_key(col) ==
    IF col = "peripheral" THEN <<0, IndexIn(NamesInOrder, col)>>
    ELSE IF StartsWith(col, "_pit_hook__") THEN <<1, IndexIn(NamesInOrder, col)>>
    ELSE IF \E i \in 1..Len(RecordColumns) : RecordColumns[i] = col
         THEN <<2, IndexIn(RecordColumns, col) - 1>>
    ELSE <<3, IndexIn(NamesInOrder, col)>>

\* the order of Python tuples
TupleLess(a, b) == a[1] < b[1] \/ (a[1] = b[1] /\ a[2] < b[2])

\* sorted(list(columns), key=sort_key)
RECURSIVE sorted(_)
sorted(columns) ==
    IF columns = {} THEN <<>>
    ELSE LET first == CHOOSE c \in columns :
                        \A d \in columns : ~TupleLess(sort_key(d), sort_key(c))
         IN  <<first>> \o sorted(columns \ {first})

\* get_all_columns: the columns of all tables that do not start with _hook__,
\* each once, sorted
get_all_columns(tables, frames) ==
    sorted({c \in UNION {{columns_to_types(tables[t], frames)[i] :
                            i \in 1..Len(columns_to_types(tables[t], frames))} :
                         t \in 1..Len(tables)} :
              ~StartsWith(c, "_hook__")})

\* exp.null()
NullLiteral == [kind |-> "null", table |-> "", name |-> "NULL", args |-> <<>>]

\* create_select_expression_for_table: the column where the table has it,
\* NULL AS col where it has not
create_select_expression_for_table(all_columns, table, frames) ==
    LET cols == columns_to_types(table, frames)
        table_cols == {cols[i] : i \in 1..Len(cols)}
    IN  [select |-> [i \in 1..Len(all_columns) |->
                       IF all_columns[i] \in table_cols
                       THEN Alias(Column("", all_columns[i]), all_columns[i])
                       ELSE Alias(NullLiteral, all_columns[i])],
         from |-> table]

\* entrypoint of dar.uss._bridge__as_of: SELECT * FROM cte__union, the UNION
\* ALL of one SELECT per table, within the window; the empty query when
\* models.yml holds no frame
as_of_entrypoint(frames, start_ts, end_ts) ==
    LET tables == get_table_names(frames)
        all_columns == get_all_columns(tables, frames)
    IN  IF tables = <<>> THEN EmptyPlan
        ELSE [kind |-> "plan", empty |-> FALSE,
              cte__union |-> [i \in 1..Len(tables) |->
                                create_select_expression_for_table(all_columns, tables[i],
                                                                   frames)],
              select |-> <<Alias(Star, "*")>>,
              from |-> "cte__union",
              where |-> WhereWindow(start_ts, end_ts)]

AsOfIdle == acatalog = <<>> /\ aplan = <<>> /\ apc = "start"

\* models.yml holds frames whose bridges and event bridges were built
InitAsOf ==
    /\ acatalog \in {c \in Catalogs : \A i \in 1..Len(c) : find_primary_hook(c[i]) # None}
    /\ aplan = <<>>
    /\ apc = "start"

\* the scheduler generates the as-of model for a window
CompileAsOf ==
    /\ apc = "start"
    /\ \E w \in Windows : aplan' = as_of_entrypoint(acatalog, w[1], w[2])
    /\ apc' = "compiled"
    /\ UNCHANGED acatalog
    /\ UNCHANGED notAsOf

(***************************************************************************)
(* Specifications.                                                         *)
(***************************************************************************)
HashInit == RawIdle /\ BridgeIdle /\ GenIdle /\ EventIdle /\ WindowIdle /\ HookIdle /\ RawPlanIdle /\ AsOfIdle /\ InitHash

NextHash == HashBoth

SpecHash == HashInit /\ [][NextHash]_vars

RawInit == HashIdle /\ BridgeIdle /\ GenIdle /\ EventIdle /\ WindowIdle /\ HookIdle /\ RawPlanIdle /\ AsOfIdle /\ InitRaw

NextRaw == Land \/ Evaluate

SpecRaw == RawInit /\ [][NextRaw]_vars

BridgeInit == HashIdle /\ RawIdle /\ GenIdle /\ EventIdle /\ WindowIdle /\ HookIdle /\ RawPlanIdle /\ AsOfIdle /\ InitBridge

NextBridge == CompileBridge \/ FillBridgeTables \/ EvaluateBridge

SpecBridge == BridgeInit /\ [][NextBridge]_vars

GenInit == HashIdle /\ RawIdle /\ BridgeIdle /\ EventIdle /\ WindowIdle /\ HookIdle /\ RawPlanIdle /\ AsOfIdle /\ InitGen

NextGen == GenerateHook \/ GenerateBridge \/ GenerateAgain

SpecGen == GenInit /\ [][NextGen]_vars

EventInit == HashIdle /\ RawIdle /\ BridgeIdle /\ GenIdle /\ WindowIdle /\ HookIdle /\ RawPlanIdle /\ AsOfIdle /\ InitEvent

NextEvent == CompileEvent \/ FillEventTables \/ EvaluateEvent

SpecEvent == EventInit /\ [][NextEvent]_vars

WindowInit == HashIdle /\ RawIdle /\ BridgeIdle /\ GenIdle /\ EventIdle /\ HookIdle /\ RawPlanIdle /\ AsOfIdle /\ InitWindow

NextWindow == HookWindows \/ BridgeWindows \/ EventWindows

SpecWindow == WindowInit /\ [][NextWindow]_vars

HookInit == HashIdle /\ RawIdle /\ BridgeIdle /\ GenIdle /\ EventIdle /\ WindowIdle /\ RawPlanIdle /\ AsOfIdle /\ InitHook

NextHook == CompileHook \/ FillHookTable \/ EvaluateHook

SpecHook == HookInit /\ [][NextHook]_vars

RawPlanInit ==
    HashIdle /\ RawIdle /\ BridgeIdle /\ GenIdle /\ EventIdle /\ WindowIdle /\ HookIdle /\ AsOfIdle /\
    InitRawPlan

NextRawPlan == CompileRaw \/ LandRaw \/ EvaluateRaw

SpecRawPlan == RawPlanInit /\ [][NextRawPlan]_vars

AsOfInit ==
    HashIdle /\ RawIdle /\ BridgeIdle /\ GenIdle /\ EventIdle /\ WindowIdle /\ HookIdle /\
    RawPlanIdle /\ InitAsOf

NextAsOf == CompileAsOf

SpecAsOf == AsOfInit /\ [][NextAsOf]_vars

(***************************************************************************)
(* Claims.                                                                 *)
(***************************************************************************)

\* two rows of cte__deduplicated agree on every column that is hashed
\* the columns the record hash covers
HashedColumns == get_columns_to_hash(build_source_columns(Columns))

SameHashedColumns(r1, r2) ==
    \A i \in 1..Len(HashedColumns) : r1.row[HashedColumns[i]] = r2.row[HashedColumns[i]]

\* C1: of two source rows with identical non-metadata columns and different
\* loaded_at, both get the same record hash, the later one never passes the
\* rank-1 filter, the earlier one passes it when no third row shares their
\* hash, and a row that passes is in the output exactly when its hash was not
\* in das.raw.<name> before the run.
C1_EarliestSurvivesUnlessPersisted ==
    [][runs' = runs + 1 =>
        \A r1 \in dedup', r2 \in dedup' :
            (SameHashedColumns(r1, r2) /\ r1._record__loaded_at < r2._record__loaded_at) =>
                /\ r1._record__hash = r2._record__hash
                /\ r2._record__hash__version # 1
                /\ RawProject(r2) \notin output'
                /\ (\A q \in dedup' : q._record__hash = r1._record__hash => q \in {r1, r2})
                      => r1._record__hash__version = 1
                /\ r1._record__hash__version = 1 =>
                      (RawProject(r1) \in output' <=> r1._record__hash \notin TargetHashes(target))
    ]_vars

\* C1 witness: a run over a source holding two such rows, the earlier of which
\* passed the rank-1 filter and was kept out of the output by the anti-join.
C1_Witness ==
    /\ rawpc = "evaluated"
    /\ \E r1 \in dedup, r2 \in dedup :
         /\ SameHashedColumns(r1, r2)
         /\ r1._record__loaded_at < r2._record__loaded_at
         /\ r1._record__hash__version = 1
         /\ r1._record__hash \in TargetHashes(target)
         /\ RawProject(r1) \notin output

\* C2: evaluating the plan again over the same source, after the first output
\* was appended, returns no rows and leaves das.raw.<name> unchanged.
C2_RerunReturnsNothing ==
    [][rawpc' = "rerun" => (output' = {} /\ target' = target)]_vars

\* C2 witness: a repeated evaluation over a non-empty source whose rows the
\* first evaluation appended.
C2_Witness ==
    /\ rawpc = "rerun"
    /\ source # {}
    /\ target # EmptyBag
    /\ output = {}

\* the rows that take part in a joined row: the frame's own row and the row
\* of every join that found a match
Participants(joined) == {joined[k].row : k \in {k \in 1..Len(joined) : joined[k].matched}}

Period(row) == <<row["_record__valid_from"][1], row["_record__valid_to"][1]>>

\* the joined rows that pair frame row l with row r of join j
Pairings(j, l, r) ==
    {o \in bjoined : o.joined[1].row = l /\ o.joined[j + 1] = Matched(r)}

\* C3: a frame row and a row of a joined bridge table are paired exactly when
\* they hold the same hook value and their validity periods overlap strictly;
\* in a plan with one join, [10,20) and [15,25) give one joined row, with
\* valid_from 15 and valid_to 20, and [10,20) and [20,30) give none.
C3_StrictOverlapJoin ==
    bpc = "evaluated" =>
        \A j \in 1..Len(bplan.joins) :
            \A l \in bdata[bplan.from], r \in bdata[bplan.joins[j].this] :
                LET fk == bplan.joins[j].eq[1].name
                    same_hook == l[fk] = r[fk]
                IN  /\ (Pairings(j, l, r) # {}) <=>
                          /\ same_hook
                          /\ Period(l)[1] < Period(r)[2]
                          /\ Period(l)[2] > Period(r)[1]
                    /\ (same_hook /\ Len(bplan.joins) = 1
                          /\ Period(l) = <<10, 20>> /\ Period(r) = <<15, 25>>) =>
                          /\ Cardinality(Pairings(j, l, r)) = 1
                          /\ \A o \in Pairings(j, l, r) :
                                /\ o.row["_record__valid_from"] = Some(15)
                                /\ o.row["_record__valid_to"] = Some(20)
                    /\ (same_hook /\ Period(l) = <<10, 20>> /\ Period(r) = <<20, 30>>) =>
                          Pairings(j, l, r) = {}

\* C3 witness: the plan of a frame with one join returned the row that pairs
\* [10,20) with [15,25).
C3_Witness ==
    /\ bpc = "evaluated"
    /\ Len(bplan.joins) = 1
    /\ \E o \in boutput :
         /\ o.joined[2].matched
         /\ Period(o.joined[1].row) = <<10, 20>>
         /\ Period(o.joined[2].row) = <<15, 25>>
         /\ o.row["_record__valid_from"] = Some(15)
         /\ o.row["_record__valid_to"] = Some(20)

\* C4: in every bridge row, _record__updated_at is the greatest updated_at of
\* the participating rows, _record__valid_from the greatest valid_from and
\* _record__valid_to the least valid_to: the intersection of their periods.
C4_ValidityIsIntersection ==
    bpc = "evaluated" =>
        \A o \in bjoined :
            LET parts == Participants(o.joined)
            IN  /\ o.row["_record__updated_at"] =
                      Some(Max({p["_record__updated_at"][1] : p \in parts}))
                /\ o.row["_record__valid_from"] = Some(Max({Period(p)[1] : p \in parts}))
                /\ o.row["_record__valid_to"] = Some(Min({Period(p)[2] : p \in parts}))
                /\ \A t \in Times :
                      (o.row["_record__valid_from"][1] <= t /\ t < o.row["_record__valid_to"][1])
                          <=> \A p \in parts : Period(p)[1] <= t /\ t < Period(p)[2]

\* C4 witness: a returned row of three participants whose valid_from comes
\* from one joined row and whose valid_to comes from the other.
C4_Witness ==
    /\ bpc = "evaluated"
    /\ \E o \in boutput :
         /\ Len(o.joined) = 3
         /\ o.joined[2].matched /\ o.joined[3].matched
         /\ Period(o.joined[1].row) = <<10, 30>>
         /\ Period(o.joined[2].row) = <<15, 25>>
         /\ Period(o.joined[3].row) = <<10, 20>>
         /\ o.row["_record__valid_from"] = Some(15)
         /\ o.row["_record__valid_to"] = Some(20)
         /\ o.joined[1].row["_record__updated_at"] # o.joined[2].row["_record__updated_at"]

\* C5: a bridge row is current exactly when every participating row is
\* current.
C5_CurrentOnlyIfAllCurrent ==
    bpc = "evaluated" =>
        \A o \in bjoined :
            (o.row["_record__is_current"] = Some(1))
                <=> \A p \in Participants(o.joined) : p["_record__is_current"] = Some(1)

\* C5 witness: a returned row whose frame row is current and whose joined row
\* is not, and which is not current.
C5_Witness ==
    /\ bpc = "evaluated"
    /\ \E o \in boutput :
         /\ Len(o.joined) >= 2
         /\ o.joined[2].matched
         /\ o.joined[1].row["_record__is_current"] = Some(1)
         /\ o.joined[2].row["_record__is_current"] = Some(0)
         /\ o.row["_record__is_current"] = Some(0)

C6Tuples ==
    {<<Some("a"), NULL>>, <<NULL, Some("a")>>, <<Some("a"), Some("")>>}

\* C6: the hash inputs of ["a", null], [null, "a"] and ["a", ""] are pairwise
\* different: null becomes the sentinel and the columns are joined in order
\* with "|".
C6_HashOrderNullSafe ==
    hinputs # <<>> =>
        /\ \A i \in 1..2, j \in 1..2 :
              (hfields[i] \in C6Tuples /\ hfields[j] \in C6Tuples /\ hfields[i] # hfields[j])
                  => hinputs[i] # hinputs[j]
        /\ \A i \in 1..2 :
              /\ hfields[i] = <<Some("a"), NULL>> => hinputs[i] = "a|_sqlmesh_surrogate_key_null_"
              /\ hfields[i] = <<NULL, Some("a")>> => hinputs[i] = "_sqlmesh_surrogate_key_null_|a"
              /\ hfields[i] = <<Some("a"), Some("")>> => hinputs[i] = "a|"

\* C6 witness: ["a", null] and ["a", ""] have both been hashed.
C6_Witness ==
    /\ hinputs # <<>>
    /\ hfields = <<<<Some("a"), NULL>>, <<Some("a"), Some("")>>>>
    /\ hinputs[1] # hinputs[2]

\* whether every stage has run its two plans
AllStagesRan == \A s \in WindowStages : wsel[s] # <<>>

NonNullEvents(plan, w) ==
    {i \in 1..Len(plan.cte__unpivot.in) : w.row[plan.cte__unpivot.in[i]] # NULL}

\* C8: every row of cte__events yields as many event rows as it has event
\* expressions that are not NULL, one per such expression; no event row has
\* a NULL event_occurred_at; the plan returns these rows when the row's
\* _record__updated_at lies in the window.
C8_OneRowPerNonNullEvent ==
    (epc = "evaluated" /\ ~eplan.empty) =>
        /\ \A w \in ewidened :
             /\ Cardinality({u \in eunpivot : u.of = w}) = Cardinality(NonNullEvents(eplan, w))
             /\ \A i \in NonNullEvents(eplan, w) :
                  \E u \in eunpivot : u.of = w /\ u.event = eplan.cte__unpivot.in[i]
                                      /\ u.event_occurred_at = w.row[eplan.cte__unpivot.in[i]]
             /\ Cardinality({r \in eoutput : r.of.of = w}) =
                  IF EvalEventWhere(eplan.where, w.row)
                  THEN Cardinality(NonNullEvents(eplan, w)) ELSE 0
        /\ \A u \in eunpivot : u.event_occurred_at # NULL
        /\ \A r \in eoutput : r.row["event_occurred_at"] # NULL

\* a row with two event expressions, one NULL and one not, gave one event row
C8_Witness ==
    /\ epc = "evaluated" /\ ~eplan.empty
    /\ \E w \in ewidened :
         /\ Len(eplan.cte__unpivot.in) = 2
         /\ Cardinality(NonNullEvents(eplan, w)) = 1
         /\ Cardinality({u \in eunpivot : u.of = w}) = 1
         /\ Cardinality({r \in eoutput : r.of.of = w}) = 1

\* the output columns of a plan
OutputColumns(plan) == [i \in 1..Len(plan.select) |-> plan.select[i].alias]

NoValidEvent(blueprint) ==
    \A i \in 1..Len(blueprint.events) : ~ValidEvent(blueprint.events[i])

\* C9 as stated: the plan generated for a blueprint without a valid event
\* returns no row and projects the columns the plan with events projects.
C9_EmptyPlanKeepsColumns ==
    (epc \in {"compiled", "filled", "evaluated"} /\ NoValidEvent(eblueprint)) =>
        /\ epc = "evaluated" => eoutput = {}
        /\ OutputColumns(eplan) = OutputColumns([select |-> final_fields(EventBridgeColumns(eblueprint.name))])

\* a frame in which no hook and no composite hook is marked primary
NoPrimaryMarked(frame) ==
    \A i \in 1..Len(AllHooksOf(frame)) : ~AllHooksOf(frame)[i].primary

ErrorMessages ==
    {"", "No primary hook found for frame ", "Primary hook is missing or invalid."}

\* the text s occurs in the message
Identifies(message, s) ==
    \E before \in ErrorMessages, after \in ErrorMessages : message = before \o s \o after

\* C10: for a frame in which nothing is marked primary, the hook entrypoint and
\* the bridge entrypoint both fail, each with an error whose message names the
\* frame, and neither returns a plan.
C10_NoPrimaryFailsNamingFrame ==
    \A i \in 1..Len(gcatalog) :
        NoPrimaryMarked(gcatalog[i]) =>
            /\ ghook[i].kind # "none" =>
                 (ghook[i].kind = "error" /\ Identifies(ghook[i].message, gcatalog[i].name))
            /\ gbridge[i].kind # "none" =>
                 (gbridge[i].kind = "error" /\ Identifies(gbridge[i].message, gcatalog[i].name))

\* what does hold: both fail and no plan is returned; only the bridge
\* entrypoint's message names the frame
C10_BothFailBridgeNamesFrame ==
    \A i \in 1..Len(gcatalog) :
        NoPrimaryMarked(gcatalog[i]) =>
            /\ ghook[i].kind \in {"none", "error"}
            /\ gbridge[i].kind # "none" =>
                 (gbridge[i].kind = "error" /\ Identifies(gbridge[i].message, gcatalog[i].name))

\* the catalog without the frames, other than frame i, in which nothing is
\* marked primary
WithoutFailingSiblings(catalog, i) ==
    SelectSeq(catalog, LAMBDA f : f = catalog[i] \/ ~NoPrimaryMarked(f))

\* C11: a frame's result does not depend on siblings that fail: a frame in
\* which something is marked primary gets its hook plan whatever happened to
\* its siblings, and its bridge plan is the plan it gets from the catalog
\* without the failing siblings.
C11_FailureScopedToFrame ==
    \A i \in 1..Len(gcatalog) :
        /\ ghook[i].kind # "none" =>
             /\ ghook[i] = hook_entrypoint(gcatalog[i], gwindow[1], gwindow[2])
             /\ NoPrimaryMarked(gcatalog[i]) \/ ghook[i].kind = "plan"
        /\ gbridge[i].kind # "none" =>
             /\ gbridge[i] = bridge_entrypoint(gcatalog[i], WithoutFailingSiblings(gcatalog, i),
                                               gwindow[1], gwindow[2])
             /\ NoPrimaryMarked(gcatalog[i]) \/ gbridge[i].kind = "plan"

\* a catalog in which frame orphans failed in both generators, before a
\* sibling listed after it got a hook plan and a bridge plan with a join
C11_Witness ==
    \E i \in 1..Len(gcatalog), j \in 1..Len(gcatalog) :
        /\ i < j
        /\ ghook[i].kind = "error" /\ gbridge[i].kind = "error"
        /\ ghook[j].kind = "plan" /\ gbridge[j].kind = "plan"
        /\ gbridge[j].joins # <<>>

\* the number of hooks and composite hooks a frame marks primary
PrimaryMarks(frame) ==
    Cardinality({i \in 1..Len(AllHooksOf(frame)) : AllHooksOf(frame)[i].primary})

\* C13 as stated: for a frame that marks two hooks primary neither generator
\* returns a plan built on one of them.
C13_TwoPrimariesNeverPicked ==
    \A i \in 1..Len(gcatalog) :
        PrimaryMarks(gcatalog[i]) >= 2 =>
            /\ ghook[i].kind \in {"none", "error"}
            /\ gbridge[i].kind \in {"none", "error"}

\* the hooks of frame i that some other frame of the catalog marks primary
ForeignHookNames(catalog, i) ==
    {AllHooksOf(catalog[i])[n].name : n \in
        {m \in 1..Len(AllHooksOf(catalog[i])) :
            \E k \in 1..Len(catalog) :
                k # i /\ MarksPrimary(catalog[k], AllHooksOf(catalog[i])[m].name)}}

\* C15 as stated: the hooks a bridge plan joins on are exactly the hooks of
\* the frame that another frame marks primary, and no join reads the frame's
\* own bridge table.
C15_ForeignHooksOwnedByOthers ==
    \A i \in 1..Len(gcatalog) :
        gbridge[i].kind = "plan" =>
            /\ {gbridge[i].joins[j].eq[1].name : j \in 1..Len(gbridge[i].joins)}
                  = ForeignHookNames(gcatalog, i)
            /\ \A j \in 1..Len(gbridge[i].joins) :
                  gbridge[i].joins[j].this # "dar.uss__staging._bridge__" \o gcatalog[i].name

\* the hooks of a frame that no frame of the catalog marks primary
UnresolvedHookNames(catalog, i) ==
    {AllHooksOf(catalog[i])[n].name : n \in
        {m \in 1..Len(AllHooksOf(catalog[i])) :
            \A k \in 1..Len(catalog) :
                ~MarksPrimary(catalog[k], AllHooksOf(catalog[i])[m].name)}}

\* C16: for a frame that has a primary hook, a hook that no frame of the
\* catalog marks primary gets no join and no table in the validity
\* expressions, and the bridge plan is still generated.
C16_UnresolvedHookSkipped ==
    \A i \in 1..Len(gcatalog) :
        (gbridge[i].kind # "none" /\ ~NoPrimaryMarked(gcatalog[i])) =>
            /\ gbridge[i].kind = "plan"
            /\ \A j \in 1..Len(gbridge[i].joins) :
                  gbridge[i].joins[j].eq[1].name \notin UnresolvedHookNames(gcatalog, i)
            /\ gbridge[i].tables =
                  <<gbridge[i].left_table>> \o
                  [j \in 1..Len(gbridge[i].joins) |-> gbridge[i].joins[j].eq[2].table]
            /\ UnresolvedHookNames(gcatalog, i) # {} =>
                  Len(gbridge[i].joins) < Len(AllHooksOf(gcatalog[i])) - 1

\* frame orders, one of whose hooks no frame of the catalog owns, got a
\* bridge plan that joins only the bridge of customers
C16_Witness ==
    \E i \in 1..Len(gcatalog) :
        /\ gcatalog[i] = FrameOrders
        /\ gbridge[i].kind = "plan"
        /\ "_hook__reference" \in UnresolvedHookNames(gcatalog, i)
        /\ Len(gbridge[i].joins) = 1
        /\ gbridge[i].tables = <<"frame__orders", "_bridge__customers">>

\* the names of the hooks and composite hooks a frame marks primary
MarkedPrimary(frame) ==
    {AllHooksOf(frame)[i].name : i \in {j \in 1..Len(AllHooksOf(frame)) : AllHooksOf(frame)[j].primary}}

\* C12: for a frame that marks a hook primary, the first column of the hook
\* plan is named _pit<primary hook>, every row the plan returns has it, and
\* two rows differ in it if and only if they differ in the primary hook's
\* value or in _record__valid_from.
C12_PitNamedAndInjective ==
    (kpc \in {"compiled", "filled", "evaluated"}) =>
        \E primary \in MarkedPrimary(kframe) :
            /\ kplan.select[1] = "_pit" \o primary
            /\ kplan.ctes[4].select[1].alias = "_pit" \o primary
            /\ kpc = "evaluated" =>
                 \A r1, r2 \in koutput :
                     (r1["_pit" \o primary] # r2["_pit" \o primary])
                         <=> \/ r1[primary] # r2[primary]
                             \/ r1["_record__valid_from"] # r2["_record__valid_from"]

\* the plan returned two rows of one primary hook value and different
\* _record__valid_from, and two rows whose primary hook value and
\* _record__valid_from, written one after the other, read the same
C12_Witness ==
    /\ kpc = "evaluated"
    /\ \E primary \in MarkedPrimary(kframe) :
         /\ kplan.select[1] = "_pit" \o primary
         /\ \E r1, r2 \in koutput :
              /\ r1[primary] = r2[primary]
              /\ r1["_record__valid_from"] # r2["_record__valid_from"]
              /\ r1["_pit" \o primary] # r2["_pit" \o primary]
         /\ \E r1, r2 \in koutput :
              /\ r1[primary] # r2[primary]
              /\ r1[primary][1] \o ToString(r1["_record__valid_from"][1])
                   = r2[primary][1] \o ToString(r2["_record__valid_from"][1])

\* the names of the composite hooks of a frame that have child hooks, and of
\* its simple hooks
CompositeNames(frame) ==
    {frame.composite_hooks[i].name :
        i \in {j \in 1..Len(frame.composite_hooks) : frame.composite_hooks[j].hooks # <<>>}}

SimpleNames(frame) == {frame.hooks[i].name : i \in 1..Len(frame.hooks)}

\* C14 as stated: in the rows a hook plan returns, the value of a composite
\* hook is never the value of a simple hook.
C14_CompositeNeverSimple ==
    kpc = "evaluated" =>
        \A r1, r2 \in koutput :
            \A c \in CompositeNames(kframe), h \in SimpleNames(kframe) : r1[c] # r2[h]

\* C17 as stated: for empty column metadata the raw entrypoint returns an
\* always-false plan that does not read the landing table, and the plan
\* returns no rows.
C17_EmptyMetadataNoRows ==
    (pcolumns = <<>> /\ ppc \in {"compiled", "landed", "evaluated"}) =>
        /\ pplan.kind = "plan"
        /\ pplan.where = WhereFalse
        /\ ppc = "evaluated" => poutput = {}

\* C18: in every evaluation, two rows of the landing table that agree on c1
\* and c2, the columns whose names do not start with _dlt, get the same
\* record hash whatever their _dlt_load_id and _dlt_id, and the hash of a
\* row is taken over c1 then c2, the order of the metadata.
C18_HashIgnoresSystemColumns ==
    rawpc \in {"evaluated", "rerun"} =>
        /\ \A r1, r2 \in dedup :
              (r1.row["c1"] = r2.row["c1"] /\ r1.row["c2"] = r2.row["c2"])
                  => r1._record__hash = r2._record__hash
        /\ \A r \in dedup :
              /\ r._record__hash = SHA256(HashInput(<<r.row["c1"], r.row["c2"]>>))
              /\ r.row["c1"] # r.row["c2"]
                    => r._record__hash # SHA256(HashInput(<<r.row["c2"], r.row["c1"]>>))

\* C18 witness: an evaluation over two rows that agree on c1 and c2 and
\* differ in _dlt_load_id and in _dlt_id, with one record hash.
C18_Witness ==
    /\ rawpc = "evaluated"
    /\ \E r1, r2 \in dedup :
         /\ r1.row["c1"] = r2.row["c1"] /\ r1.row["c2"] = r2.row["c2"]
         /\ r1.row["_dlt_load_id"] # r2.row["_dlt_load_id"]
         /\ r1.row["_dlt_id"] # r2.row["_dlt_id"]
         /\ r1.row["c1"] # r1.row["c2"]
         /\ r1._record__hash = r2._record__hash

\* C19: every row of the bridge plan of a frame, whether or not it passes the
\* WHERE clause and whether or not its joins found a match, holds the
\* frame's name in the column peripheral.
C19_PeripheralIsFrameName ==
    bpc = "evaluated" =>
        /\ boutput \subseteq bjoined
        /\ \A o \in bjoined :
              /\ "peripheral" \in DOMAIN o.row
              /\ o.row["peripheral"] = Some(BridgeCatalog[bframe].name)

\* C19 witness: a plan with a join returned a row whose first join found no
\* match, tagged with the frame's name.
C19_Witness ==
    /\ bpc = "evaluated"
    /\ \E o \in boutput :
         /\ Len(o.joined) >= 2
         /\ ~o.joined[2].matched
         /\ o.row["peripheral"] = Some(BridgeCatalog[bframe].name)

\* the sources of the valid events of a blueprint that are not the bridge table
ExternalSources(blueprint) ==
    {EventSource(blueprint.events[i], blueprint.name) :
        i \in {k \in 1..Len(blueprint.events) :
                 /\ ValidEvent(blueprint.events[k])
                 /\ EventSource(blueprint.events[k], blueprint.name)
                      # bridge_table_of(blueprint.name)}}

\* C20 as stated: cte__events has exactly one join per source of a valid
\* event that is not the bridge table, a LEFT join on the equality of one
\* column, so the table every event expression reads is joined.
C20_EverySourceJoined ==
    (epc \in {"compiled", "filled", "evaluated", "failed"} /\ ~eplan.empty) =>
        LET joins == eplan.cte__events.joins
        IN  /\ \A src \in ExternalSources(eblueprint) :
                 Cardinality({j \in 1..Len(joins) : joins[j].this = src}) = 1
            /\ \A j \in 1..Len(joins) :
                 /\ joins[j].this \in ExternalSources(eblueprint)
                 /\ joins[j].kind = "LEFT"
                 /\ joins[j].eq[1].name = joins[j].eq[2].name
            /\ EventPlanBinds(eplan)

C22_MatchedRowHasNonEmptyWindow ==
    bpc = "evaluated" =>
        \A o \in bjoined :
            (/\ \A k \in 1..Len(o.joined) : o.joined[k].matched
             /\ \A p \in Participants(o.joined) : Period(p)[1] < Period(p)[2])
                => o.row["_record__valid_from"][1] < o.row["_record__valid_to"][1]

\* C23: through any sequence of loads and evaluations, das.raw.<name> holds
\* every row once and no two rows of one record hash, never loses a hash, and
\* after an evaluation holds the hash of every row of the source evaluated.
C23_TargetUniqueAndComplete ==
    [][/\ \A t \in BagToSet(target') : CopiesIn(t, target') = 1
       /\ \A t1, t2 \in BagToSet(target') : t1._record__hash = t2._record__hash => t1 = t2
       /\ TargetHashes(target) \subseteq TargetHashes(target')
       /\ runs' = runs + 1 =>
            /\ {d._record__hash : d \in dedup'} = {r._record__hash : r \in cte__source(source, HashedColumns)}
            /\ \A d \in dedup' : d._record__hash \in TargetHashes(target')
      ]_vars

\* C23 witness: the second load held a row whose hash das.raw.<name> already
\* held and a row of a new hash; after its evaluation the table holds two
\* rows.
C23_Witness ==
    /\ runs = 2 /\ rawpc = "evaluated"
    /\ Cardinality(BagToSet(target)) = 2
    /\ Cardinality(output) = 1
    /\ \E d \in dedup : d._record__hash__version = 1 /\ RawProject(d) \notin output

\* C24 as stated: for every frame for which both stages return a plan, the
\* _pit column the hook plan lists first is the _pit column the bridge plan
\* reads from the frame's hook table.
C24_StagesAgreeOnPrimary ==
    \A i \in 1..Len(gcatalog) :
        (ghook[i].kind = "plan" /\ gbridge[i].kind = "plan") =>
            /\ ghook[i].select[1] = gbridge[i].select[2].expr.name
            /\ \E k \in 1..Len(ghook[i].select) :
                 ghook[i].select[k] = gbridge[i].select[3].expr.name
                 /\ ghook[i].select[1] = "_pit" \o ghook[i].select[k]

\* C25 as stated: two column tuples of one length that differ in some
\* position never give hash_columns the same string to hash.
C25_HashInputInjective ==
    (hinputs # <<>> /\ Len(hfields[1]) = Len(hfields[2]) /\ hfields[1] # hfields[2])
        => hinputs[1] # hinputs[2]

\* the names of the named entries of a hook list, in declaration order
NamesOf(hooks) ==
    LET named == SelectSeq(hooks, LAMBDA h : h.name # None)
    IN  [i \in 1..Len(named) |-> named[i].name]

\* C26: the hook plan binds cte__source, cte__hooks, cte__composite_hooks and
\* cte__primary_hooks in this order, the first reading das.scd.<name> and each
\* other the one bound just before it; the final SELECT reads the last one
\* and lists _pit<primary>, the named hooks in declaration order, the named
\* composite hooks in declaration order, and the columns of das.scd.<name> in
\* metadata order.
C26_LayeredPlanAndProjection ==
    (kpc \in {"compiled", "filled", "evaluated", "failed"} /\ kplan.kind = "plan") =>
        /\ [k \in 1..Len(kplan.ctes) |-> kplan.ctes[k].name]
             = <<"cte__source", "cte__hooks", "cte__composite_hooks", "cte__primary_hooks">>
        /\ kplan.ctes[1].from = "das.scd." \o kframe.name
        /\ \A k \in 2..Len(kplan.ctes) : kplan.ctes[k].from = kplan.ctes[k - 1].name
        /\ kplan.from = kplan.ctes[Len(kplan.ctes)].name
        /\ \E primary \in MarkedPrimary(kframe) :
             kplan.select = <<"_pit" \o primary>> \o NamesOf(kframe.hooks)
                              \o NamesOf(kframe.composite_hooks)
                              \o <<"id", "_record__updated_at", "_record__valid_from",
                                   "_record__valid_to", "_record__is_current">>

\* C26 witness: the plan of a frame with two simple hooks and a composite
\* hook has been generated.
C26_Witness ==
    /\ kpc = "compiled" /\ kplan.kind = "plan"
    /\ Len(NamesOf(kframe.hooks)) = 2 /\ Len(NamesOf(kframe.composite_hooks)) = 1
    /\ Len(kplan.select) = 9

\* C28 as stated: every hook name the final SELECT of the hook plan lists is
\* the alias of an expression of one of the CTEs.
C28_ProjectedHooksAreBuilt ==
    (kpc \in {"compiled", "filled", "evaluated", "failed"} /\ kplan.kind = "plan") =>
        \A name \in {NamesOf(AllHooksOf(kframe))[i] : i \in 1..Len(NamesOf(AllHooksOf(kframe)))} :
            /\ \E i \in 1..Len(kplan.select) : kplan.select[i] = name
            /\ \E k \in 1..Len(kplan.ctes) :
                 \E i \in 1..Len(kplan.ctes[k].select) : kplan.ctes[k].select[i].alias = name

\* the expression a bridge plan aliases to a column name
PlanExpression(plan, alias) ==
    plan.select[CHOOSE i \in 1..Len(plan.select) : plan.select[i].alias = alias].expr

\* the function each validity column is aggregated with
ValidityFunction ==
    [_record__updated_at |-> "GREATEST", _record__valid_from |-> "GREATEST",
     _record__valid_to |-> "LEAST", _record__is_current |-> "LEAST"]

\* C27: in every bridge plan without a join each of the four validity
\* expressions is the column of the frame's own table and no function call;
\* in a plan with n >= 1 joins each is the GREATEST or LEAST call over n + 1
\* columns of that name: the frame's table first, then the table of each
\* join in the order of the joins.
C27_ValidityExpressionShape ==
    \A i \in 1..Len(gbridge) :
        gbridge[i].kind = "plan" =>
            \A c \in DOMAIN ValidityFunction :
                LET expr == PlanExpression(gbridge[i], c)
                    joins == gbridge[i].joins
                IN  IF joins = <<>>
                    THEN expr = Column("frame__" \o gcatalog[i].name, c)
                    ELSE /\ expr.kind = "func"
                         /\ expr.name = ValidityFunction[c]
                         /\ expr.args = <<Column("frame__" \o gcatalog[i].name, c)>> \o
                                        [j \in 1..Len(joins) |-> Column(joins[j].eq[2].table, c)]

\* C27 witness: one catalog holds a bridge plan without a join and a bridge
\* plan with a join, both generated.
C27_Witness ==
    \E i, k \in 1..Len(gbridge) :
        /\ gbridge[i].kind = "plan" /\ gbridge[i].joins = <<>>
        /\ PlanExpression(gbridge[i], "_record__valid_to").kind = "column"
        /\ gbridge[k].kind = "plan" /\ Len(gbridge[k].joins) >= 1
        /\ Len(PlanExpression(gbridge[k], "_record__valid_to").args) = Len(gbridge[k].joins) + 1

\* the event columns of cte__events: the entries of its SELECT list after
\* the columns of the bridge
EventColumnsOf(plan) ==
    SelectSeq(plan.cte__events.select, LAMBDA a : a.expr.kind = "func")

\* C29 as stated: the table qualifier of every event column of cte__events,
\* the last part of the event's source, is cte__source or the table of one of
\* the joins of cte__events.
C29_EventQualifiersBound ==
    (epc \in {"compiled", "filled", "evaluated", "failed"} /\ ~eplan.empty) =>
        \A i \in 1..Len(EventColumnsOf(eplan)) :
            LET qualifier == EventColumnsOf(eplan)[i].expr.args[1].table
            IN  \/ qualifier = eplan.cte__events.from
                \/ \E j \in 1..Len(eplan.cte__events.joins) :
                     SourceTable(eplan.cte__events.joins[j].this) = qualifier

\* the names a SELECT list projects, in order
ProjectedNames(select) == [i \in 1..Len(select) |-> select[i].alias]

\* the columns of every event bridge of a catalog that do not start with
\* _hook__
AsOfColumns(frames) ==
    {c \in UNION {{columns_to_types(t, frames)[i] :
                     i \in 1..Len(columns_to_types(t, frames))} :
                  t \in {"dar.uss__staging._event_bridge__" \o frames[k].name :
                           k \in 1..Len(frames)}} :
       c \notin {"_hook__customer", "_hook__product", "_hook__order", "_hook__reference",
                 "_hook__order__product", "_hook__shipment", "_hook__waybill"}}

IsPitHookColumn(c) ==
    c \in {"_pit_hook__customer", "_pit_hook__order", "_pit_hook__order__product",
           "_pit_hook__product", "_pit_hook__reference", "_pit_hook__shipment",
           "_pit_hook__waybill"}

\* the ordered column list C30 states, for a set of columns
AsOfColumnList(columns) ==
    SelectSeq(<<"peripheral">>, LAMBDA c : c \in columns)
    \o SelectSeq(NamesInOrder, LAMBDA c : c \in columns /\ IsPitHookColumn(c))
    \o SelectSeq(<<"_record__updated_at", "_record__valid_from", "_record__valid_to",
                   "_record__is_current">>, LAMBDA c : c \in columns)
    \o SelectSeq(NamesInOrder,
                 LAMBDA c : /\ c \in columns /\ ~IsPitHookColumn(c)
                            /\ c \notin {"peripheral", "_record__updated_at",
                                         "_record__valid_from", "_record__valid_to",
                                         "_record__is_current"})

\* C30: the plan has one branch per frame, reading that frame's event bridge;
\* every branch projects the same names in the same order: peripheral, the
\* _pit_hook__ columns by name, the four record fields in their fixed order,
\* the other columns by name, these being all columns of all event bridges
\* but the _hook__ ones; a branch projects the column itself when its table
\* has it and NULL under that name when it has not.
C30_BranchesProjectOneColumnList ==
    (apc = "compiled" /\ ~aplan.empty) =>
        /\ Len(aplan.cte__union) = Len(acatalog)
        /\ \E expected \in {AsOfColumnList(AsOfColumns(acatalog))} :
             \A b \in 1..Len(aplan.cte__union) :
               \E branch \in {aplan.cte__union[b]} :
                 \E own \in {columns_to_types(branch.from, acatalog)} :
                   /\ branch.from = "dar.uss__staging._event_bridge__" \o acatalog[b].name
                   /\ ProjectedNames(branch.select) = expected
                   /\ \A i \in 1..Len(branch.select) :
                        IF \E k \in 1..Len(own) : own[k] = branch.select[i].alias
                        THEN branch.select[i].expr = Column("", branch.select[i].alias)
                        ELSE branch.select[i].expr.kind = "null"

\* C30 witness: a compiled plan with two branches over the columns
\* peripheral, two _pit_hook__ columns, the four record fields and the three
\* event columns, one branch projecting NULL for a column its table lacks.
C30_Witness ==
    /\ apc = "compiled" /\ ~aplan.empty
    /\ Len(aplan.cte__union) = 2
    /\ ProjectedNames(aplan.cte__union[1].select) =
         <<"peripheral", "_pit_hook__customer", "_pit_hook__order",
           "_record__updated_at", "_record__valid_from", "_record__valid_to",
           "_record__is_current", "event", "event_occurred_at", "event_occurred_on">>
    /\ \E i \in 1..Len(aplan.cte__union[1].select) :
         /\ aplan.cte__union[1].select[i].expr.kind = "null"
         /\ aplan.cte__union[2].select[i].expr.kind = "column"

====
